---- MODULE Spec2Model ----
(***************************************************************************)
(* Usage accounting and rate limiting engine of Cost_Optimizer_For_AI.     *)
(*                                                                         *)
(* The database is PostgreSQL at its default isolation level (READ         *)
(* COMMITTED): a statement reads the rows committed when it runs, the      *)
(* writes of a session stay private to it until session.commit(), an       *)
(* INSERT .. ON CONFLICT DO UPDATE waits for a row another open session    *)
(* has written and then applies to the committed row, and closing a        *)
(* session without commit rolls its writes back.                           *)
(***************************************************************************)
EXTENDS Integers, Sequences, FiniteSets, TLC

(* ---------------------------------------------------------------------- *)
(* Bounds of the model                                                     *)
(* ---------------------------------------------------------------------- *)
\* The free-tier limits of rate_limiter.py (60, 5000 and 20), scaled down so
\* that every limit is reached inside the explored runs.
RPM_LIMIT == 2
RPD_LIMIT == 2
AED_LIMIT == 1
\* The clock counts ticks; a minute and a day are scaled down likewise.
TicksPerMinute == 2
MinutesPerDay == 2
MaxClock == 4
\* Requests in a run of overlapping handlers, and in a sequential run.
MaxRequests == 3
MaxSeqRequests == 4

\* Events in the store and rollup runs in a run of the aggregator.
MaxEvents == 2
MaxRuns == 2
\* Requests to the ingestion endpoint in a run.
MaxIngests == 2
MaxGuardRequests == 3
MaxSysRequests == 1
MaxSysRuns == 1
\* Token counts priced one by one, besides the larger ones named in Tokens.
MaxTokens == 3

\* The request handlers that may run at the same time.
Slots == {1, 2}
\* The rollup runs that may be open at the same time.
RunSlots == {1, 2}
Keys == {"k1", "k2"}
Kinds == {"std", "ai"}

WINDOW_MINUTE == "minute"
WINDOW_DAY == "day"
WINDOW_AI_DAY == "ai_day"

VARIABLES
    clock,          \* datetime.now(timezone.utc), in ticks
    api_key_usage,  \* committed rows of table api_key_usage: row key -> request_count
    req,            \* the request handlers: position, locals, open transaction (tx),
                    \* and the number of increments the handler has issued
    started,        \* requests started so far (bounds the run)
    admitted,       \* history: row key -> requests admitted and committed on it
    overlapped,     \* history: keys on which two requests were in flight together
    usage_events,          \* committed rows of table usage_events: the columns the
                           \* core reads -> number of rows that carry them
    daily_cost_rollups,    \* committed rows of the three rollup tables: key -> values
    model_cost_rollups,
    endpoint_cost_rollups,
    run,            \* the rollup runs: position, locals, open transaction (tx_*),
                    \* whether an event of the date arrived since the run's first
                    \* read (dirty), and the number of upserts it has issued
    runs_started,   \* rollup runs started so far (bounds the run)
    settled,        \* history: date -> number of runs for the date that committed in
                    \* a row, each having seen every event of the date stored so far
    ing,            \* the request that POST /ingest/usage is handling: position, the
                    \* header and body received, and what each stage produced
    ingests_started \* requests to POST /ingest/usage so far (bounds the run)

rlvars == <<api_key_usage, req, started, admitted, overlapped>>
rollupvars == <<usage_events, daily_cost_rollups, model_cost_rollups,
                endpoint_cost_rollups, run, runs_started, settled>>
ingvars == <<ing, ingests_started>>
vars == <<clock, api_key_usage, req, started, admitted, overlapped, usage_events,
          daily_cost_rollups, model_cost_rollups, endpoint_cost_rollups, run,
          runs_started, settled, ing, ingests_started>>

(* ---------------------------------------------------------------------- *)
(* Rows and tables                                                         *)
(* ---------------------------------------------------------------------- *)
NoRows == [k \in {} |-> 0]

Row(api_key_id, window_type, window_start) == <<api_key_id, window_type, window_start>>

Put(tbl, k, v) == [x \in (DOMAIN tbl) \cup {k} |-> IF x = k THEN v ELSE tbl[x]]

\* The rows of `tx` written over `tbl`: what session.commit() makes durable.
Overwrite(tbl, tx) ==
    [x \in (DOMAIN tbl) \cup (DOMAIN tx) |-> IF x \in DOMAIN tx THEN tx[x] ELSE tbl[x]]

\* Mutant: the minute bucket is floored to midnight.
_minute_bucket_midnight(now) == now - (now % (TicksPerMinute * MinutesPerDay))

_minute_bucket(now) == now - (now % TicksPerMinute)

_day_bucket(now) == now - (now % (TicksPerMinute * MinutesPerDay))

\* cast(UsageEvent.timestamp, Date)
DateOf(timestamp) == timestamp \div (TicksPerMinute * MinutesPerDay)

Dates == 0..DateOf(MaxClock)

\* SELECT request_count ... scalar_one_or_none(); 0 when there is no row.
_get_current_count(tbl, row) == IF row \in DOMAIN tbl THEN tbl[row] ELSE 0

Active(r) == req[r].pc \notin {"idle", "done", "denied", "failed", "unauthorized"}

\* Mutant: the statement takes no row lock (a read-modify-write in the application).
NeverLocked(r, row) == FALSE

\* Another open session holds an uncommitted write of `row`.
LockedByOther(r, row) ==
    \E s \in Slots \ {r} : Active(s) /\ row \in DOMAIN req[s].tx

\* Mutant: the row is inserted with request_count=0.
UpsertAddOneFromZero(tbl, tx, row) ==
    IF row \in DOMAIN tx THEN tx[row] + 1
    ELSE IF row \in DOMAIN tbl THEN tbl[row] + 1
    ELSE 0

\* INSERT (.., request_count=1) ON CONFLICT DO UPDATE SET request_count =
\* request_count + 1, evaluated on the latest committed row (or on the
\* session's own earlier write of it).
UpsertAddOne(tbl, tx, row) ==
    IF row \in DOMAIN tx THEN tx[row] + 1
    ELSE IF row \in DOMAIN tbl THEN tbl[row] + 1
    ELSE 1

\* Mutant: the comparison is strict, so a counter at its limit still admits.
OverLimitStrict(count, limit) == count > limit

\* `if count >= LIMIT: raise RateLimitExceeded`
OverLimit(count, limit) == count >= limit

Limit(window_type) ==
    CASE window_type = WINDOW_MINUTE -> RPM_LIMIT
      [] window_type = WINDOW_DAY -> RPD_LIMIT
      [] window_type = WINDOW_AI_DAY -> AED_LIMIT

\* Mutant: the minute window is counted for the whole deployment, not by key.
MinuteRowShared(q) == Row("*", WINDOW_MINUTE, q.minute_start)

MinuteRow(q) == Row(q.api_key_id, WINDOW_MINUTE, q.minute_start)
DayRow(q) == Row(q.api_key_id, WINDOW_DAY, q.day_start)
AiDayRow(q) == Row(q.api_key_id, WINDOW_AI_DAY, q.day_start)

\* The windows a request of this kind consumes.
WindowRows(q) ==
    IF q.kind = "ai" THEN {MinuteRow(q), DayRow(q), AiDayRow(q)}
    ELSE {MinuteRow(q), DayRow(q)}

\* What check_and_increment_request / _ai_request raised, if anything.
NoException == [type |-> "none", message |-> ""]
RateLimitExceeded(message) == [type |-> "RateLimitExceeded", message |-> message]
\* Any failure of a statement or of the commit (sqlalchemy.exc.SQLAlchemyError).
StorageError == [type |-> "SQLAlchemyError", message |-> "storage failure"]

\* What the dependency hands to the framework: the AuthContext it returns (the
\* router logic runs), an HTTPException it raises, or an exception it lets through.
NoResponse == [via |-> "none", status_code |-> 0, detail |-> "", headers |-> {}]
Proceed == [via |-> "return", status_code |-> 0, detail |-> "auth", headers |-> {}]
_RATE_LIMITED ==
    [via |-> "HTTPException", status_code |-> 429,
     detail |-> "Rate limit exceeded. Please try again later.", headers |-> {}]

\* Mutant: `except Exception` in place of `except RateLimitExceeded`.
enforce_rate_limit_catching_all(exc) ==
    IF exc.type = "none" THEN Proceed ELSE _RATE_LIMITED

\* Mutant: the denial carries the message of the exception, which names the window.
enforce_rate_limit_leaking(exc) ==
    IF exc.type = "none" THEN Proceed
    ELSE IF exc.type = "RateLimitExceeded"
    THEN [via |-> "HTTPException", status_code |-> 429, detail |-> exc.message,
          headers |-> {}]
    ELSE [via |-> "propagate", status_code |-> 500, detail |-> exc.type, headers |-> {}]

\* enforce_rate_limit and enforce_ai_rate_limit: try the service call; only
\* RateLimitExceeded is caught, and answered with _RATE_LIMITED; anything
\* else leaves the dependency as it was raised.
enforce_rate_limit(exc) ==
    IF exc.type = "none" THEN Proceed
    ELSE IF exc.type = "RateLimitExceeded" THEN _RATE_LIMITED
    ELSE [via |-> "propagate", status_code |-> 500, detail |-> exc.type, headers |-> {}]

IdleRequest ==
    [pc |-> "idle", kind |-> "std", api_key_id |-> "k1", minute_start |-> 0,
     day_start |-> 0, rpm_count |-> 0, rpd_count |-> 0, aed_count |-> 0, tx |-> NoRows,
     issued |-> 0, raised |-> NoException, response |-> NoResponse]

\* `raise RateLimitExceeded(message)` out of the service, through the dependency.
Denied(q, message) ==
    [q EXCEPT !.pc = "denied", !.raised = RateLimitExceeded(message),
              !.response = enforce_rate_limit(RateLimitExceeded(message))]

IdleRun ==
    [pc |-> "idle", target_date |-> 0, now |-> 0, rows |-> NoRows, tx_daily |-> NoRows,
     tx_model |-> NoRows, tx_endpoint |-> NoRows, dirty |-> FALSE, issued |-> 0,
     overlap |-> FALSE]

\* The Authorization header of a request: absent, or a scheme and a token.
NoAuthorization == [present |-> FALSE, scheme |-> "", token |-> ""]
Authorization(scheme, token) == [present |-> TRUE, scheme |-> scheme, token |-> token]

NoAuthContext == [project |-> "", api_key_id |-> ""]

\* The JSON body of a request: the fields of UsageEventCreate the core reads,
\* and the fields the schema does not declare (extra).
Body(model_name, input_tokens, output_tokens, extra) ==
    [model_name |-> model_name, input_tokens |-> input_tokens,
     output_tokens |-> output_tokens, endpoint |-> "/chat", environment |-> "prod",
     extra |-> extra]

IdleIngest ==
    [pc |-> "idle", authorization |-> NoAuthorization, payload |-> Body("", 0, 0, NoRows),
     auth |-> NoAuthContext, cost_usd |-> [coef |-> 0, exp |-> 0], response |-> NoResponse]

\* The handler has returned or raised: its locals and its session are gone.
Returned(q, outcome) ==
    LET exc == IF outcome = "failed" THEN StorageError ELSE NoException IN
    [q EXCEPT !.pc = outcome, !.rpm_count = 0, !.rpd_count = 0, !.aed_count = 0,
              !.tx = NoRows, !.raised = exc, !.response = enforce_rate_limit(exc)]

(* ---------------------------------------------------------------------- *)
(* Initial state                                                           *)
(* ---------------------------------------------------------------------- *)
Init ==
    /\ clock = 0
    /\ api_key_usage = NoRows
    /\ req = [r \in Slots |-> IdleRequest]
    /\ started = 0
    /\ admitted = NoRows
    /\ overlapped = {}
    /\ usage_events = NoRows
    /\ daily_cost_rollups = NoRows
    /\ model_cost_rollups = NoRows
    /\ endpoint_cost_rollups = NoRows
    /\ run = [r \in RunSlots |-> IdleRun]
    /\ runs_started = 0
    /\ settled = [d \in Dates |-> 0]
    /\ ing = IdleIngest
    /\ ingests_started = 0

(* ---------------------------------------------------------------------- *)
(* Rate limiter                                                            *)
(* ---------------------------------------------------------------------- *)
\* A request enters check_and_increment_request / _ai_request: `now` is read
\* once and both buckets are floored from it.
BeginRequest(r, kind, key) ==
    /\ ~Active(r)
    /\ started' = started + 1
    /\ req' = [req EXCEPT ![r] =
                 [IdleRequest EXCEPT !.pc = "check_rpm", !.kind = kind, !.api_key_id = key,
                                     !.minute_start = _minute_bucket(clock),
                                     !.day_start = _day_bucket(clock)]]
    /\ overlapped' = IF \E s \in Slots \ {r} : Active(s) /\ req[s].api_key_id = key
                     THEN overlapped \cup {key} ELSE overlapped
    /\ UNCHANGED <<clock, api_key_usage, admitted>>
    /\ UNCHANGED rollupvars
    /\ UNCHANGED ingvars

\* Mutant: each window is checked and counted in turn: the minute window is
\* incremented before the day window is read.
CheckRpmThenCount(r) ==
    /\ req[r].pc = "check_rpm"
    /\ ~LockedByOther(r, MinuteRow(req[r]))
    /\ LET n == _get_current_count(api_key_usage, MinuteRow(req[r])) IN
       req' = [req EXCEPT ![r] =
                 IF OverLimit(n, RPM_LIMIT)
                 THEN Denied([@ EXCEPT !.rpm_count = n], "RPM limit exceeded")
                 ELSE [@ EXCEPT !.rpm_count = n, !.pc = "check_rpd",
                                !.issued = req[r].issued + 1,
                                !.tx = Put(req[r].tx, MinuteRow(req[r]),
                                           UpsertAddOne(api_key_usage, req[r].tx,
                                                        MinuteRow(req[r])))]]
    /\ UNCHANGED <<clock, api_key_usage, started, admitted, overlapped>>
    /\ UNCHANGED rollupvars
    /\ UNCHANGED ingvars

\* rpm_count = _get_current_count(.., WINDOW_MINUTE, minute_start); deny at the limit.
CheckRpm(r) ==
    /\ req[r].pc = "check_rpm"
    /\ LET n == _get_current_count(api_key_usage, MinuteRow(req[r])) IN
       req' = [req EXCEPT ![r] =
                 IF OverLimit(n, RPM_LIMIT)
                 THEN Denied([@ EXCEPT !.rpm_count = n], "RPM limit exceeded")
                 ELSE [@ EXCEPT !.rpm_count = n, !.pc = "check_rpd"]]
    /\ UNCHANGED <<clock, api_key_usage, started, admitted, overlapped>>
    /\ UNCHANGED rollupvars
    /\ UNCHANGED ingvars

\* Mutant: the minute window is counted, durably, before the day window is checked.
CheckRpdCountingFirst(r) ==
    /\ req[r].pc = "check_rpd"
    /\ api_key_usage' = Put(api_key_usage, MinuteRow(req[r]),
                            _get_current_count(api_key_usage, MinuteRow(req[r])) + 1)
    /\ LET n == _get_current_count(api_key_usage, DayRow(req[r])) IN
       req' = [req EXCEPT ![r] =
                 IF OverLimit(n, RPD_LIMIT)
                 THEN Denied([@ EXCEPT !.rpd_count = n], "RPD limit exceeded")
                 ELSE [@ EXCEPT !.rpd_count = n,
                                !.pc = IF req[r].kind = "ai" THEN "check_aed" ELSE "inc_day"]]
    /\ UNCHANGED <<clock, started, admitted, overlapped>>
    /\ UNCHANGED rollupvars
    /\ UNCHANGED ingvars

\* rpd_count = _get_current_count(.., WINDOW_DAY, day_start); deny at the limit.
CheckRpd(r) ==
    /\ req[r].pc = "check_rpd"
    /\ LET n == _get_current_count(api_key_usage, DayRow(req[r])) IN
       req' = [req EXCEPT ![r] =
                 IF OverLimit(n, RPD_LIMIT)
                 THEN Denied([@ EXCEPT !.rpd_count = n], "RPD limit exceeded")
                 ELSE [@ EXCEPT !.rpd_count = n,
                                !.pc = IF req[r].kind = "ai" THEN "check_aed"
                                       ELSE "inc_minute"]]
    /\ UNCHANGED <<clock, api_key_usage, started, admitted, overlapped>>
    /\ UNCHANGED rollupvars
    /\ UNCHANGED ingvars

\* aed_count = _get_current_count(.., WINDOW_AI_DAY, day_start); AI requests only.
CheckAed(r) ==
    /\ req[r].pc = "check_aed"
    /\ LET n == _get_current_count(api_key_usage, AiDayRow(req[r])) IN
       req' = [req EXCEPT ![r] =
                 IF OverLimit(n, AED_LIMIT)
                 THEN Denied([@ EXCEPT !.aed_count = n], "AI explanations/day limit exceeded")
                 ELSE [@ EXCEPT !.aed_count = n, !.pc = "inc_minute"]]
    /\ UNCHANGED <<clock, api_key_usage, started, admitted, overlapped>>
    /\ UNCHANGED rollupvars
    /\ UNCHANGED ingvars

\* _increment as one statement of session r: it waits while another open
\* session holds the row, then writes inside r's transaction.
_increment(r, row, next) ==
    /\ ~LockedByOther(r, row)
    /\ req' = [req EXCEPT ![r].tx = Put(@, row, UpsertAddOne(api_key_usage, @, row)),
                          ![r].issued = @ + 1,
                          ![r].pc = next]
    /\ UNCHANGED <<clock, api_key_usage, started, admitted, overlapped>>
    /\ UNCHANGED rollupvars
    /\ UNCHANGED ingvars

IncMinute(r) ==
    /\ req[r].pc = "inc_minute"
    /\ _increment(r, MinuteRow(req[r]), "inc_day")

\* Mutant: every request goes on to the AI-explanations window.
IncDayAlwaysAi(r) ==
    /\ req[r].pc = "inc_day"
    /\ _increment(r, DayRow(req[r]), "inc_ai_day")

IncDay(r) ==
    /\ req[r].pc = "inc_day"
    /\ _increment(r, DayRow(req[r]), IF req[r].kind = "ai" THEN "inc_ai_day" ELSE "commit")

IncAiDay(r) ==
    /\ req[r].pc = "inc_ai_day"
    /\ _increment(r, AiDayRow(req[r]), "commit")

\* await session.commit(): the increments of the request become durable together.
CommitRequest(r) ==
    /\ req[r].pc = "commit"
    /\ api_key_usage' = Overwrite(api_key_usage, req[r].tx)
    /\ admitted' = [k \in (DOMAIN admitted) \cup WindowRows(req[r]) |->
                      _get_current_count(admitted, k) + (IF k \in WindowRows(req[r]) THEN 1 ELSE 0)]
    /\ req' = [req EXCEPT ![r] = Returned(req[r], "done")]
    /\ UNCHANGED <<clock, started, overlapped>>
    /\ UNCHANGED rollupvars
    /\ UNCHANGED ingvars

\* Mutant: the writes issued before the failure are committed on the way out.
FailRequestKeepingWrites(r) ==
    /\ Active(r)
    /\ api_key_usage' = Overwrite(api_key_usage, req[r].tx)
    /\ req' = [req EXCEPT ![r] = Returned(req[r], "failed")]
    /\ UNCHANGED <<clock, started, admitted, overlapped>>
    /\ UNCHANGED rollupvars
    /\ UNCHANGED ingvars

\* A storage failure in any statement or in the commit: the exception leaves
\* the function and get_db_session closes the session, which rolls back.
FailRequest(r) ==
    /\ Active(r)
    /\ req' = [req EXCEPT ![r] = Returned(req[r], "failed")]
    /\ UNCHANGED <<clock, api_key_usage, started, admitted, overlapped>>
    /\ UNCHANGED rollupvars
    /\ UNCHANGED ingvars

Tick ==
    /\ clock < MaxClock
    /\ clock' = clock + 1
    /\ UNCHANGED rlvars
    /\ UNCHANGED rollupvars
    /\ UNCHANGED ingvars

Next ==
    \/ \E r \in Slots, kind \in Kinds, key \in Keys :
          started < MaxRequests /\ BeginRequest(r, kind, key)
    \/ \E r \in Slots : CheckRpm(r)
    \/ \E r \in Slots : CheckRpd(r)
    \/ \E r \in Slots : CheckAed(r)
    \/ \E r \in Slots : IncMinute(r)
    \/ \E r \in Slots : IncDay(r)
    \/ \E r \in Slots : IncAiDay(r)
    \/ \E r \in Slots : CommitRequest(r)
    \/ \E r \in Slots : FailRequest(r)
    \/ Tick

Spec == Init /\ [][Next]_vars

\* Sequential execution: a request begins only when no other is in flight.
NoneActive == \A s \in Slots : ~Active(s)

SeqNext ==
    \/ \E r \in Slots, kind \in Kinds, key \in Keys :
          started < MaxSeqRequests /\ NoneActive /\ BeginRequest(r, kind, key)
    \/ \E r \in Slots : CheckRpm(r)
    \/ \E r \in Slots : CheckRpd(r)
    \/ \E r \in Slots : CheckAed(r)
    \/ \E r \in Slots : IncMinute(r)
    \/ \E r \in Slots : IncDay(r)
    \/ \E r \in Slots : IncAiDay(r)
    \/ \E r \in Slots : CommitRequest(r)
    \/ \E r \in Slots : FailRequest(r)
    \/ Tick

SeqSpec == Init /\ [][SeqNext]_vars

(* ---------------------------------------------------------------------- *)
(* Cost calculator                                                         *)
(* ---------------------------------------------------------------------- *)
\* MODEL_PRICING: USD per 1000 tokens, written here in millionths of a dollar,
\* which is the price of one token in units of 10^-9 USD.
KnownModels ==
    {"gpt-4", "gpt-4-turbo", "gpt-3.5-turbo", "claude-3-opus", "claude-3-sonnet",
     "claude-3-haiku", "llama-3-70b", "llama-3-8b", "gemini-1.5-pro", "gemini-1.5-flash"}

InputRate(m) ==
    CASE m = "gpt-4" -> 30000
      [] m = "gpt-4-turbo" -> 10000
      [] m = "gpt-3.5-turbo" -> 500
      [] m = "claude-3-opus" -> 15000
      [] m = "claude-3-sonnet" -> 3000
      [] m = "claude-3-haiku" -> 250
      [] m = "llama-3-70b" -> 590
      [] m = "llama-3-8b" -> 50
      [] m = "gemini-1.5-pro" -> 1250
      [] m = "gemini-1.5-flash" -> 75

OutputRate(m) ==
    CASE m = "gpt-4" -> 60000
      [] m = "gpt-4-turbo" -> 30000
      [] m = "gpt-3.5-turbo" -> 1500
      [] m = "claude-3-opus" -> 75000
      [] m = "claude-3-sonnet" -> 15000
      [] m = "claude-3-haiku" -> 1250
      [] m = "llama-3-70b" -> 790
      [] m = "llama-3-8b" -> 80
      [] m = "gemini-1.5-pro" -> 5000
      [] m = "gemini-1.5-flash" -> 300

\* decimal.Decimal: the number coef * 10^exp (of tokens and prices, none
\* negative), under the default context of the module: 28 significant digits,
\* ROUND_HALF_EVEN.
DecimalPrec == 28

Decimal(coef, exp) == [coef |-> coef, exp |-> exp]

RECURSIVE Pow10(_)
Pow10(n) == IF n = 0 THEN 1 ELSE 10 * Pow10(n - 1)

RECURSIVE Digits(_)
Digits(coef) == IF coef < 10 THEN 1 ELSE 1 + Digits(coef \div 10)

\* The result of an operation, rounded to the precision of the context.
Context(d) ==
    LET drop == Digits(d.coef) - DecimalPrec IN
    IF drop <= 0 THEN d
    ELSE LET q == d.coef \div Pow10(drop)
             r == d.coef % Pow10(drop)
             half == 5 * Pow10(drop - 1)
         IN Decimal(IF r > half \/ (r = half /\ q % 2 = 1) THEN q + 1 ELSE q,
                    d.exp + drop)

\* Trailing zeros of the coefficient traded for exponent, up to `ideal`.
RECURSIVE Reduced(_, _)
Reduced(d, ideal) ==
    IF d.coef = 0 THEN Decimal(0, ideal)
    ELSE IF d.exp < ideal /\ d.coef % 10 = 0
    THEN Reduced(Decimal(d.coef \div 10, d.exp + 1), ideal)
    ELSE d

\* Decimal("0.03") and the like: a literal keeps the digits it is written with.
DecimalLiteral(millionths) == Reduced(Decimal(millionths, -6), 0)

\* Mutant: integer division, the quotient without its fraction.
DecimalFloorDivide(a, b) ==
    Decimal((a.coef * Pow10(a.exp - b.exp)) \div b.coef, 0)

\* a / b for a divisor that is a power of ten: the quotient is exact, and its
\* exponent is as close to exp(a) - exp(b) as the digits allow.
DecimalDivide(a, b) ==
    Context(Reduced(Decimal(a.coef, a.exp - b.exp - (Digits(b.coef) - 1)),
                    a.exp - b.exp))

\* a * b: the coefficients multiplied, the exponents added.
DecimalMultiply(a, b) == Context(Decimal(a.coef * b.coef, a.exp + b.exp))

\* a + b: both written with the smaller exponent, the coefficients added.
DecimalAdd(a, b) ==
    LET e == IF a.exp < b.exp THEN a.exp ELSE b.exp IN
    Context(Decimal(a.coef * Pow10(a.exp - e) + b.coef * Pow10(b.exp - e), e))

_ONE_THOUSAND == Decimal(1000, 0)

\* MODEL_PRICING[model_name]: the two prices as the Decimal literals of the table.
MODEL_PRICING(model_name) ==
    [input |-> DecimalLiteral(InputRate(model_name)),
     output |-> DecimalLiteral(OutputRate(model_name))]

\* get_supported_models(): the names with known pricing.
get_supported_models == KnownModels

\* Mutant: a model without pricing costs nothing (`.get(model_name, default)`).
calculate_cost_defaulting(model_name, input_tokens, output_tokens) ==
    IF model_name \notin KnownModels
    THEN [raised |-> FALSE, cost |-> Decimal(0, 0)]
    ELSE LET pricing == MODEL_PRICING(model_name) IN
         [raised |-> FALSE,
          cost |-> DecimalAdd(
              DecimalMultiply(DecimalDivide(Decimal(input_tokens, 0), _ONE_THOUSAND),
                              pricing.input),
              DecimalMultiply(DecimalDivide(Decimal(output_tokens, 0), _ONE_THOUSAND),
                              pricing.output))]

\* The Decimal cost in USD; for an unknown model the ValueError, whose message
\* lists the supported models.
calculate_cost(model_name, input_tokens, output_tokens) ==
    IF model_name \notin KnownModels
    THEN [raised |-> TRUE, supported |-> get_supported_models]
    ELSE LET pricing == MODEL_PRICING(model_name)
             input_cost == DecimalMultiply(DecimalDivide(Decimal(input_tokens, 0),
                                                         _ONE_THOUSAND), pricing.input)
             output_cost == DecimalMultiply(DecimalDivide(Decimal(output_tokens, 0),
                                                          _ONE_THOUSAND), pricing.output)
         IN [raised |-> FALSE, cost |-> DecimalAdd(input_cost, output_cost)]

\* A Decimal stored in a NUMERIC(12,8) column: rounded to 8 decimal places,
\* half away from zero; the result is in units of 10^-8 USD.
Numeric12_8(d) ==
    IF d.exp >= -8 THEN d.coef * Pow10(d.exp + 8)
    ELSE (d.coef + 5 * Pow10(-9 - d.exp)) \div Pow10(-8 - d.exp)

(* ---------------------------------------------------------------------- *)
(* Event store and ingestion                                               *)
(* ---------------------------------------------------------------------- *)
NULL == "NULL"

\* The calls of the ingestion endpoint: the payload and the project of the key.
IngestCalls ==
    {<<[model_name |-> "gpt-4", input_tokens |-> 500, output_tokens |-> 150,
        endpoint |-> "/chat", environment |-> "prod"], "p1">>,
     <<[model_name |-> "gemini-1.5-flash", input_tokens |-> 1, output_tokens |-> 0,
        endpoint |-> "/summarize", environment |-> "prod"], "p1">>,
     <<[model_name |-> "gpt-4", input_tokens |-> 500, output_tokens |-> 150,
        endpoint |-> "/chat", environment |-> "dev"], "p2">>}


\* An event stored before projects existed: migration 0003 added project_id
\* to usage_events as a nullable column.
LegacyEvent ==
    [timestamp |-> 0, model_name |-> "gpt-4", input_tokens |-> 500, output_tokens |-> 150,
     total_tokens |-> 650, cost_usd |-> 2400000, endpoint |-> "/chat",
     environment |-> "prod", project_id |-> NULL]

RunActive(r) == run[r].pc \notin {"idle", "done", "failed"}

\* The run has read usage_events and has not committed.
RunReading(r) == RunActive(r) /\ run[r].pc # "sel_daily"

\* session.add(event); commit: one more row with these columns (its id is a
\* fresh uuid, which nothing in the core reads).
Inserted(tbl, e) == Put(tbl, e, _get_current_count(tbl, e) + 1)

\* The number of rows of usage_events among the events E.
RECURSIVE StoredEvents(_)
StoredEvents(E) ==
    IF E = {} THEN 0
    ELSE LET e == CHOOSE x \in E : TRUE IN usage_events[e] + StoredEvents(E \ {e})

\* total_tokens = input + output; event = UsageEvent(..), as the row that
\* the INSERT stores: cost_usd goes into a NUMERIC(12,8) column and timestamp
\* is the server default now().
UsageEventRow(payload, cost_usd, project_id, now) ==
    [timestamp |-> now,
     model_name |-> payload.model_name,
     input_tokens |-> payload.input_tokens,
     output_tokens |-> payload.output_tokens,
     total_tokens |-> payload.input_tokens + payload.output_tokens,
     cost_usd |-> Numeric12_8(cost_usd),
     endpoint |-> payload.endpoint,
     environment |-> payload.environment,
     project_id |-> project_id]

\* ingest_usage_event: price the payload, derive total_tokens, insert the event
\* scoped to the project and commit; an unknown model is answered 422.
IngestUsageEvent(payload, project) ==
    /\ StoredEvents(DOMAIN usage_events) < MaxEvents
    /\ ~calculate_cost(payload.model_name, payload.input_tokens, payload.output_tokens).raised
    /\ usage_events' = Inserted(usage_events,
          UsageEventRow(payload,
                        calculate_cost(payload.model_name, payload.input_tokens,
                                       payload.output_tokens).cost,
                        project, clock))
    /\ run' = [r \in RunSlots |->
                 IF RunReading(r) /\ run[r].target_date = DateOf(clock)
                 THEN [run[r] EXCEPT !.dirty = TRUE] ELSE run[r]]
    /\ settled' = [settled EXCEPT ![DateOf(clock)] = 0]
    /\ UNCHANGED <<clock, daily_cost_rollups, model_cost_rollups, endpoint_cost_rollups,
                   runs_started>>
    /\ UNCHANGED rlvars
    /\ UNCHANGED ingvars

(* ---------------------------------------------------------------------- *)
(* POST /ingest/usage: the request pipeline                                *)
(* ---------------------------------------------------------------------- *)
\* hashlib.sha256(raw_key).hexdigest(), on the keys of this model.
hash_api_key(raw_key) ==
    CASE raw_key = "sk_live_1" -> "9f1c"
      [] raw_key = "sk_live_2" -> "e03b"
      [] raw_key = "sk_live_revoked" -> "47aa"
      [] raw_key = "sk_live_4" -> "b71e"
      [] OTHER -> "d2c8"

\* Table api_keys and table projects.
api_keys ==
    {[id |-> "k1", key_hash |-> "9f1c", is_active |-> TRUE, project_id |-> "p1"],
     [id |-> "k2", key_hash |-> "e03b", is_active |-> TRUE, project_id |-> "p2"],
     [id |-> "k3", key_hash |-> "47aa", is_active |-> FALSE, project_id |-> "p1"],
     [id |-> "k4", key_hash |-> "b71e", is_active |-> TRUE, project_id |-> "p1"]}
projects == {"p1", "p2"}

Lower(scheme) == IF scheme = "Bearer" THEN "bearer" ELSE scheme

_AUTH_FAILED ==
    [via |-> "HTTPException", status_code |-> 401,
     detail |-> "Invalid or missing API key.",
     headers |-> {<<"WWW-Authenticate", "Bearer">>}]

\* Mutant: an inactive key is answered with a detail of its own.
get_current_project_telling(authorization) ==
    IF ~authorization.present \/ Lower(authorization.scheme) # "bearer"
    THEN [raised |-> TRUE, response |-> _AUTH_FAILED]
    ELSE LET found == {k \in api_keys : k.key_hash = hash_api_key(authorization.token)} IN
         IF found = {} THEN [raised |-> TRUE, response |-> _AUTH_FAILED]
         ELSE LET api_key == CHOOSE k \in found : TRUE IN
              IF ~api_key.is_active
              THEN [raised |-> TRUE,
                    response |-> [_AUTH_FAILED EXCEPT !.detail = "API key is revoked."]]
              ELSE IF api_key.project_id \notin projects
              THEN [raised |-> TRUE, response |-> _AUTH_FAILED]
              ELSE [raised |-> FALSE,
                    auth |-> [project |-> api_key.project_id, api_key_id |-> api_key.id]]

\* get_current_project: the AuthContext of the key the token hashes to, or
\* the same 401 for a missing header, another scheme, an unknown key, an
\* inactive key and a missing project.
get_current_project(authorization) ==
    IF ~authorization.present \/ Lower(authorization.scheme) # "bearer"
    THEN [raised |-> TRUE, response |-> _AUTH_FAILED]
    ELSE LET found == {k \in api_keys : k.key_hash = hash_api_key(authorization.token)} IN
         IF found = {} THEN [raised |-> TRUE, response |-> _AUTH_FAILED]
         ELSE LET api_key == CHOOSE k \in found : TRUE IN
              IF ~api_key.is_active \/ api_key.project_id \notin projects
              THEN [raised |-> TRUE, response |-> _AUTH_FAILED]
              ELSE [raised |-> FALSE,
                    auth |-> [project |-> api_key.project_id, api_key_id |-> api_key.id]]

\* UsageEventCreate: extra="forbid", input_tokens and output_tokens ge=0,
\* environment one of dev and prod.
UsageEventCreate(body) ==
    /\ DOMAIN body.extra = {}
    /\ body.input_tokens >= 0
    /\ body.output_tokens >= 0
    /\ body.environment \in {"dev", "prod"}

\* The requests of this model.
Authorizations ==
    {NoAuthorization, Authorization("Bearer", "sk_live_1"),
     Authorization("Bearer", "sk_live_2"), Authorization("Bearer", "sk_live_revoked"),
     Authorization("Bearer", "sk_live_unknown"), Authorization("Basic", "sk_live_1")}
Extras == {NoRows, [cost_usd |-> 1], [total_tokens |-> 7]}
Bodies ==
    {Body(m, i, o, x) : m \in {"gpt-4", "gemini-1.5-flash", "gpt-5"},
                        i \in {-1, 1, 500}, o \in {0, 150}, x \in Extras}

Answered(q, response) == [q EXCEPT !.pc = "answered", !.response = response]

\* A request arrives; the handler takes one request at a time here.
BeginIngest(authorization, body) ==
    /\ ing.pc \in {"idle", "answered"}
    /\ ingests_started < MaxIngests
    /\ ingests_started' = ingests_started + 1
    /\ ing' = [IdleIngest EXCEPT !.pc = "auth", !.authorization = authorization,
                                 !.payload = body]
    /\ UNCHANGED clock
    /\ UNCHANGED rlvars
    /\ UNCHANGED rollupvars

\* Depends(get_current_project): the only dependency of the route besides the session.
Authenticate ==
    /\ ing.pc = "auth"
    /\ LET found == get_current_project(ing.authorization) IN
       ing' = IF found.raised THEN Answered(ing, found.response)
              ELSE [ing EXCEPT !.pc = "validate", !.auth = found.auth]
    /\ UNCHANGED <<clock, ingests_started>>
    /\ UNCHANGED rlvars
    /\ UNCHANGED rollupvars

\* payload: UsageEventCreate, validated by the framework before the handler runs.
ValidateBody ==
    /\ ing.pc = "validate"
    /\ ing' = IF UsageEventCreate(ing.payload) THEN [ing EXCEPT !.pc = "price"]
              ELSE Answered(ing, [via |-> "RequestValidationError", status_code |-> 422,
                                  detail |-> "validation error", headers |-> {}])
    /\ UNCHANGED <<clock, ingests_started>>
    /\ UNCHANGED rlvars
    /\ UNCHANGED rollupvars

\* 1. Calculate cost: ValueError becomes a 422 whose detail is the message.
PriceEvent ==
    /\ ing.pc = "price"
    /\ LET priced == calculate_cost(ing.payload.model_name, ing.payload.input_tokens,
                                    ing.payload.output_tokens) IN
       ing' = IF priced.raised
              THEN Answered(ing, [via |-> "HTTPException", status_code |-> 422,
                                  detail |-> "Unknown model", headers |-> {},
                                  supported |-> priced.supported])
              ELSE [ing EXCEPT !.pc = "persist", !.cost_usd = priced.cost]
    /\ UNCHANGED <<clock, ingests_started>>
    /\ UNCHANGED rlvars
    /\ UNCHANGED rollupvars

\* 2-4. Derive total_tokens, build the record scoped to the project, add and
\* commit; the stored record is returned with 201.
PersistEvent ==
    /\ ing.pc = "persist"
    /\ LET event == UsageEventRow(ing.payload, ing.cost_usd, ing.auth.project, clock) IN
       /\ usage_events' = Inserted(usage_events, event)
       /\ ing' = Answered(ing, [via |-> "return", status_code |-> 201,
                                detail |-> "created", headers |-> {}, event |-> event])
    /\ run' = [r \in RunSlots |->
                 IF RunReading(r) /\ run[r].target_date = DateOf(clock)
                 THEN [run[r] EXCEPT !.dirty = TRUE] ELSE run[r]]
    /\ settled' = [settled EXCEPT ![DateOf(clock)] = 0]
    /\ UNCHANGED <<clock, ingests_started, daily_cost_rollups, model_cost_rollups,
                   endpoint_cost_rollups, runs_started>>
    /\ UNCHANGED rlvars

\* The INSERT or the commit fails: rollback, and a 500 that names no cause.
PersistFails ==
    /\ ing.pc = "persist"
    /\ ing' = Answered(ing, [via |-> "HTTPException", status_code |-> 500,
                             detail |-> "Failed to store the usage event. Please try again.",
                             headers |-> {}])
    /\ UNCHANGED <<clock, ingests_started>>
    /\ UNCHANGED rlvars
    /\ UNCHANGED rollupvars

IngestNext ==
    \/ \E authorization \in Authorizations, body \in Bodies : BeginIngest(authorization, body)
    \/ Authenticate
    \/ ValidateBody
    \/ PriceEvent
    \/ PersistEvent
    \/ PersistFails

IngestSpec == Init /\ [][IngestNext]_vars

\* The pricing step on its own, for every model name and token counts of
\* every size class: an authenticated, validated request is about to be priced.
Tokens == (0..MaxTokens) \cup {150, 500, 999, 1000, 1500}
ModelNames == KnownModels \cup {"gpt-5", "GPT-4", ""}

CostInit ==
    /\ clock = 0
    /\ api_key_usage = NoRows
    /\ req = [r \in Slots |-> IdleRequest]
    /\ started = 0
    /\ admitted = NoRows
    /\ overlapped = {}
    /\ usage_events = NoRows
    /\ daily_cost_rollups = NoRows
    /\ model_cost_rollups = NoRows
    /\ endpoint_cost_rollups = NoRows
    /\ run = [r \in RunSlots |-> IdleRun]
    /\ runs_started = 0
    /\ settled = [d \in Dates |-> 0]
    /\ ingests_started = 1
    /\ \E m \in ModelNames, i \in Tokens, o \in Tokens :
          ing = [IdleIngest EXCEPT !.pc = "price",
                                   !.authorization = Authorization("Bearer", "sk_live_1"),
                                   !.auth = [project |-> "p1", api_key_id |-> "k1"],
                                   !.payload = Body(m, i, o, NoRows)]

CostNext == PriceEvent

CostSpec == CostInit /\ [][CostNext]_vars

(* ---------------------------------------------------------------------- *)
(* enforce_rate_limit / enforce_ai_rate_limit behind get_current_project     *)
(* ---------------------------------------------------------------------- *)
\* A request enters the dependency: FastAPI resolves get_current_project
\* first; its 401 ends the request, its AuthContext names the key whose
\* windows check_and_increment_request / _ai_request then checks.
EnforceBegin(r, kind, authorization) ==
    LET found == get_current_project(authorization) IN
    /\ ~Active(r)
    /\ IF found.raised
       THEN /\ started' = started + 1
            /\ req' = [req EXCEPT ![r] = [IdleRequest EXCEPT !.pc = "unauthorized",
                                                             !.kind = kind,
                                                             !.response = found.response]]
            /\ UNCHANGED <<clock, api_key_usage, admitted, overlapped>>
            /\ UNCHANGED rollupvars
            /\ UNCHANGED ingvars
       ELSE BeginRequest(r, kind, found.auth.api_key_id)

GuardNext ==
    \/ \E r \in Slots, kind \in Kinds, authorization \in Authorizations :
          started < MaxGuardRequests /\ NoneActive /\ EnforceBegin(r, kind, authorization)
    \/ \E r \in Slots : CheckRpm(r)
    \/ \E r \in Slots : CheckRpd(r)
    \/ \E r \in Slots : CheckAed(r)
    \/ \E r \in Slots : IncMinute(r)
    \/ \E r \in Slots : IncDay(r)
    \/ \E r \in Slots : IncAiDay(r)
    \/ \E r \in Slots : CommitRequest(r)
    \/ \E r \in Slots : FailRequest(r)
    \/ Tick

GuardSpec == Init /\ [][GuardNext]_vars

(* ---------------------------------------------------------------------- *)
(* Rollup aggregator                                                       *)
(* ---------------------------------------------------------------------- *)
\* Mutant: the project filter is left out of the WHERE clause.
MatchingAnyProject(target_date) ==
    {e \in DOMAIN usage_events : DateOf(e.timestamp) = target_date}

\* Mutant: the date filter is left out of the WHERE clause.
MatchingAnyDate(target_date) ==
    {e \in DOMAIN usage_events : e.project_id # NULL}

\* date_filter and project_filter: the events of the date that have a project.
Matching(target_date) ==
    {e \in DOMAIN usage_events :
        /\ DateOf(e.timestamp) = target_date
        /\ e.project_id # NULL}

\* func.sum(UsageEvent.cost_usd) over the rows of the events G
RECURSIVE SumCostUsd(_)
SumCostUsd(G) ==
    IF G = {} THEN 0
    ELSE LET e == CHOOSE x \in G : TRUE IN
         usage_events[e] * e.cost_usd + SumCostUsd(G \ {e})

\* func.sum(UsageEvent.total_tokens) over the rows of the events G
RECURSIVE SumTotalTokens(_)
SumTotalTokens(G) ==
    IF G = {} THEN 0
    ELSE LET e == CHOOSE x \in G : TRUE IN
         usage_events[e] * e.total_tokens + SumTotalTokens(G \ {e})

DailyKey(e) == <<DateOf(e.timestamp), e.environment, e.project_id>>
ModelKey(e) == <<DateOf(e.timestamp), e.model_name, e.environment, e.project_id>>
EndpointKey(e) == <<DateOf(e.timestamp), e.endpoint, e.environment, e.project_id>>

\* SELECT .. sum(cost_usd), sum(total_tokens), count() .. GROUP BY date, environment, project_id
SelectDailyRows(target_date) ==
    LET I == Matching(target_date) IN
    [k \in {DailyKey(e) : e \in I} |->
        LET G == {e \in I : DailyKey(e) = k} IN
        [total_cost_usd |-> SumCostUsd(G), total_tokens |-> SumTotalTokens(G),
         request_count |-> StoredEvents(G)]]

\* .. GROUP BY date, model_name, environment, project_id
SelectModelRows(target_date) ==
    LET I == Matching(target_date) IN
    [k \in {ModelKey(e) : e \in I} |->
        LET G == {e \in I : ModelKey(e) = k} IN
        [total_cost_usd |-> SumCostUsd(G), total_tokens |-> SumTotalTokens(G),
         request_count |-> StoredEvents(G)]]

\* Mutant: the endpoint query has no date filter.
SelectEndpointRowsAnyDate(target_date) ==
    LET I == MatchingAnyDate(target_date) IN
    [k \in {EndpointKey(e) : e \in I} |->
        LET G == {e \in I : EndpointKey(e) = k} IN
        [total_cost_usd |-> SumCostUsd(G), request_count |-> StoredEvents(G)]]

\* SELECT .. sum(cost_usd), count() .. GROUP BY date, endpoint, environment, project_id
SelectEndpointRows(target_date) ==
    LET I == Matching(target_date) IN
    [k \in {EndpointKey(e) : e \in I} |->
        LET G == {e \in I : EndpointKey(e) = k} IN
        [total_cost_usd |-> SumCostUsd(G), request_count |-> StoredEvents(G)]]

Without(f, k) == [x \in (DOMAIN f) \ {k} |-> f[x]]

Tables == <<daily_cost_rollups, model_cost_rollups, endpoint_cost_rollups>>

\* run_daily_rollups has returned or raised: its locals and its session are gone.
Finished(u, outcome) ==
    [IdleRun EXCEPT !.pc = outcome, !.issued = IF outcome = "failed" THEN u.issued ELSE 0]

\* Another open session holds an uncommitted write of the rollup row.
RollupLockedByOther(r, tx_field, k) ==
    \E s \in RunSlots \ {r} : RunActive(s) /\ k \in DOMAIN run[s][tx_field]

\* Mutant: ON CONFLICT DO NOTHING, an existing row keeps its values.
UpsertKeepingExisting(tbl, tx, k, values) ==
    IF k \in DOMAIN tx THEN tx
    ELSE IF k \in DOMAIN tbl THEN Put(tx, k, tbl[k])
    ELSE Put(tx, k, values)

\* Mutant: the update adds the new figures to the stored ones.
UpsertAccumulating(tbl, tx, k, values) ==
    IF k \in DOMAIN tbl
    THEN Put(tx, k, [values EXCEPT !.total_cost_usd = @ + tbl[k].total_cost_usd,
                                   !.request_count = @ + tbl[k].request_count])
    ELSE Put(tx, k, values)

\* INSERT .. ON CONFLICT (key) DO UPDATE SET <every derived column>, updated_at = now():
\* the row of the key is the new values, whether it existed or not.
UpsertRow(tbl, tx, k, values) == Put(tx, k, values)

\* Another run for the same date has its session open.
SameDateRunOpen(r, target_date) ==
    \E s \in RunSlots \ {r} : RunActive(s) /\ run[s].target_date = target_date

\* run_daily_rollups(session, target_date) is entered. `overlap` records, for
\* the properties, that another run for the same date was open at some time
\* of this run.
BeginRollup(r, target_date) ==
    /\ ~RunActive(r)
    /\ runs_started' = runs_started + 1
    /\ run' = [s \in RunSlots |->
                 IF s = r
                 THEN [IdleRun EXCEPT !.pc = "sel_daily", !.target_date = target_date,
                                      !.overlap = SameDateRunOpen(r, target_date)]
                 ELSE IF RunActive(s) /\ run[s].target_date = target_date
                 THEN [run[s] EXCEPT !.overlap = TRUE]
                 ELSE run[s]]
    /\ UNCHANGED <<clock, usage_events, daily_cost_rollups, model_cost_rollups,
                   endpoint_cost_rollups, settled>>
    /\ UNCHANGED rlvars
    /\ UNCHANGED ingvars

\* _rollup_daily_cost: the group query. It is the session's first statement, so
\* the transaction, and with it now(), starts here.
SelectDaily(r) ==
    /\ run[r].pc = "sel_daily"
    /\ LET rows == SelectDailyRows(run[r].target_date) IN
       run' = [run EXCEPT ![r].rows = rows, ![r].now = clock,
                          ![r].pc = IF DOMAIN rows = {} THEN "sel_model" ELSE "ups_daily"]
    /\ UNCHANGED <<clock, usage_events, daily_cost_rollups, model_cost_rollups,
                   endpoint_cost_rollups, runs_started, settled>>
    /\ UNCHANGED rlvars
    /\ UNCHANGED ingvars

\* Mutant: _rollup_daily_cost commits each upsert as it goes.
UpsertDailyCommitting(r) ==
    /\ run[r].pc = "ups_daily"
    /\ \E k \in DOMAIN run[r].rows :
          /\ ~RollupLockedByOther(r, "tx_daily", k)
          /\ daily_cost_rollups' = Put(daily_cost_rollups, k,
                [total_cost_usd |-> run[r].rows[k].total_cost_usd,
                 total_tokens |-> run[r].rows[k].total_tokens,
                 request_count |-> run[r].rows[k].request_count,
                 updated_at |-> run[r].now])
          /\ run' = [run EXCEPT ![r].rows = Without(@, k), ![r].issued = @ + 1,
                                ![r].pc = IF DOMAIN run[r].rows = {k} THEN "sel_model"
                                          ELSE "ups_daily"]
    /\ UNCHANGED <<clock, usage_events, model_cost_rollups, endpoint_cost_rollups,
                   runs_started, settled>>
    /\ UNCHANGED rlvars
    /\ UNCHANGED ingvars

\* _rollup_daily_cost: one pass of `for row in rows`, the upsert of one group.
UpsertDaily(r) ==
    /\ run[r].pc = "ups_daily"
    /\ \E k \in DOMAIN run[r].rows :
          /\ ~RollupLockedByOther(r, "tx_daily", k)
          /\ run' = [run EXCEPT
                ![r].tx_daily = UpsertRow(daily_cost_rollups, @, k,
                    [total_cost_usd |-> run[r].rows[k].total_cost_usd,
                     total_tokens |-> run[r].rows[k].total_tokens,
                     request_count |-> run[r].rows[k].request_count,
                     updated_at |-> run[r].now]),
                ![r].rows = Without(@, k),
                ![r].issued = @ + 1,
                ![r].pc = IF DOMAIN run[r].rows = {k} THEN "sel_model" ELSE "ups_daily"]
    /\ UNCHANGED <<clock, usage_events, daily_cost_rollups, model_cost_rollups,
                   endpoint_cost_rollups, runs_started, settled>>
    /\ UNCHANGED rlvars
    /\ UNCHANGED ingvars

\* _rollup_model_cost: the group query.
SelectModel(r) ==
    /\ run[r].pc = "sel_model"
    /\ LET rows == SelectModelRows(run[r].target_date) IN
       run' = [run EXCEPT ![r].rows = rows,
                          ![r].pc = IF DOMAIN rows = {} THEN "sel_endpoint" ELSE "ups_model"]
    /\ UNCHANGED <<clock, usage_events, daily_cost_rollups, model_cost_rollups,
                   endpoint_cost_rollups, runs_started, settled>>
    /\ UNCHANGED rlvars
    /\ UNCHANGED ingvars

\* _rollup_model_cost: the upsert of one group.
UpsertModel(r) ==
    /\ run[r].pc = "ups_model"
    /\ \E k \in DOMAIN run[r].rows :
          /\ ~RollupLockedByOther(r, "tx_model", k)
          /\ run' = [run EXCEPT
                ![r].tx_model = UpsertRow(model_cost_rollups, @, k,
                    [total_cost_usd |-> run[r].rows[k].total_cost_usd,
                     total_tokens |-> run[r].rows[k].total_tokens,
                     request_count |-> run[r].rows[k].request_count,
                     updated_at |-> run[r].now]),
                ![r].rows = Without(@, k),
                ![r].issued = @ + 1,
                ![r].pc = IF DOMAIN run[r].rows = {k} THEN "sel_endpoint" ELSE "ups_model"]
    /\ UNCHANGED <<clock, usage_events, daily_cost_rollups, model_cost_rollups,
                   endpoint_cost_rollups, runs_started, settled>>
    /\ UNCHANGED rlvars
    /\ UNCHANGED ingvars

\* _rollup_endpoint_cost: the group query.
SelectEndpoint(r) ==
    /\ run[r].pc = "sel_endpoint"
    /\ LET rows == SelectEndpointRows(run[r].target_date) IN
       run' = [run EXCEPT ![r].rows = rows,
                          ![r].pc = IF DOMAIN rows = {} THEN "commit" ELSE "ups_endpoint"]
    /\ UNCHANGED <<clock, usage_events, daily_cost_rollups, model_cost_rollups,
                   endpoint_cost_rollups, runs_started, settled>>
    /\ UNCHANGED rlvars
    /\ UNCHANGED ingvars

\* _rollup_endpoint_cost: the upsert of one group (the table has no total_tokens).
UpsertEndpoint(r) ==
    /\ run[r].pc = "ups_endpoint"
    /\ \E k \in DOMAIN run[r].rows :
          /\ ~RollupLockedByOther(r, "tx_endpoint", k)
          /\ run' = [run EXCEPT
                ![r].tx_endpoint = UpsertRow(endpoint_cost_rollups, @, k,
                    [total_cost_usd |-> run[r].rows[k].total_cost_usd,
                     request_count |-> run[r].rows[k].request_count,
                     updated_at |-> run[r].now]),
                ![r].rows = Without(@, k),
                ![r].issued = @ + 1,
                ![r].pc = IF DOMAIN run[r].rows = {k} THEN "commit" ELSE "ups_endpoint"]
    /\ UNCHANGED <<clock, usage_events, daily_cost_rollups, model_cost_rollups,
                   endpoint_cost_rollups, runs_started, settled>>
    /\ UNCHANGED rlvars
    /\ UNCHANGED ingvars

\* Mutant: the run deletes the events it has aggregated.
CommitRollupPurging(r) ==
    /\ run[r].pc = "commit"
    /\ daily_cost_rollups' = Overwrite(daily_cost_rollups, run[r].tx_daily)
    /\ model_cost_rollups' = Overwrite(model_cost_rollups, run[r].tx_model)
    /\ endpoint_cost_rollups' = Overwrite(endpoint_cost_rollups, run[r].tx_endpoint)
    /\ usage_events' = [e \in {x \in DOMAIN usage_events :
                                  DateOf(x.timestamp) # run[r].target_date} |->
                           usage_events[e]]
    /\ run' = [run EXCEPT ![r] = Finished(run[r], "done")]
    /\ settled' = [settled EXCEPT ![run[r].target_date] = IF run[r].dirty THEN 0 ELSE @ + 1]
    /\ UNCHANGED <<clock, runs_started>>
    /\ UNCHANGED rlvars
    /\ UNCHANGED ingvars

\* Mutant: the run replaces the rows of its date: it deletes them all and
\* inserts its own.
CommitRollupReplacing(r) ==
    LET Kept(tbl) == [k \in {x \in DOMAIN tbl : x[1] # run[r].target_date} |-> tbl[k]] IN
    /\ run[r].pc = "commit"
    /\ daily_cost_rollups' = Overwrite(Kept(daily_cost_rollups), run[r].tx_daily)
    /\ model_cost_rollups' = Overwrite(Kept(model_cost_rollups), run[r].tx_model)
    /\ endpoint_cost_rollups' = Overwrite(Kept(endpoint_cost_rollups), run[r].tx_endpoint)
    /\ run' = [run EXCEPT ![r] = Finished(run[r], "done")]
    /\ settled' = [settled EXCEPT ![run[r].target_date] = IF run[r].dirty THEN 0 ELSE @ + 1]
    /\ UNCHANGED <<clock, usage_events, runs_started>>
    /\ UNCHANGED rlvars
    /\ UNCHANGED ingvars

\* await session.commit(): the rows written by the run replace the committed
\* ones in all three tables at once.
CommitRollup(r) ==
    /\ run[r].pc = "commit"
    /\ daily_cost_rollups' = Overwrite(daily_cost_rollups, run[r].tx_daily)
    /\ model_cost_rollups' = Overwrite(model_cost_rollups, run[r].tx_model)
    /\ endpoint_cost_rollups' = Overwrite(endpoint_cost_rollups, run[r].tx_endpoint)
    /\ run' = [run EXCEPT ![r] = Finished(run[r], "done")]
    /\ settled' = [settled EXCEPT ![run[r].target_date] = IF run[r].dirty THEN 0 ELSE @ + 1]
    /\ UNCHANGED <<clock, usage_events, runs_started>>
    /\ UNCHANGED rlvars
    /\ UNCHANGED ingvars

\* Mutant: what the run has written so far is committed when it fails.
FailRollupKeepingWrites(r) ==
    /\ RunActive(r)
    /\ daily_cost_rollups' = Overwrite(daily_cost_rollups, run[r].tx_daily)
    /\ model_cost_rollups' = Overwrite(model_cost_rollups, run[r].tx_model)
    /\ endpoint_cost_rollups' = Overwrite(endpoint_cost_rollups, run[r].tx_endpoint)
    /\ run' = [run EXCEPT ![r] = Finished(run[r], "failed")]
    /\ UNCHANGED <<clock, usage_events, runs_started, settled>>
    /\ UNCHANGED rlvars
    /\ UNCHANGED ingvars

\* A query, an upsert or the commit raises: the exception leaves
\* run_daily_rollups, `async with async_session_factory()` closes the session,
\* which rolls back, and lifespan logs the failure.
FailRollup(r) ==
    /\ RunActive(r)
    /\ run' = [run EXCEPT ![r] = Finished(run[r], "failed")]
    /\ UNCHANGED <<clock, usage_events, daily_cost_rollups, model_cost_rollups,
                   endpoint_cost_rollups, runs_started, settled>>
    /\ UNCHANGED rlvars
    /\ UNCHANGED ingvars

\* Midnight passes: the clock moves to the start of the next day.
DayPasses ==
    /\ _day_bucket(clock) + TicksPerMinute * MinutesPerDay <= MaxClock
    /\ clock' = _day_bucket(clock) + TicksPerMinute * MinutesPerDay
    /\ UNCHANGED rlvars
    /\ UNCHANGED rollupvars
    /\ UNCHANGED ingvars

RollupInit ==
    /\ clock = 0
    /\ api_key_usage = NoRows
    /\ req = [r \in Slots |-> IdleRequest]
    /\ started = 0
    /\ admitted = NoRows
    /\ overlapped = {}
    /\ usage_events \in {NoRows, Inserted(NoRows, LegacyEvent)}
    /\ daily_cost_rollups = NoRows
    /\ model_cost_rollups = NoRows
    /\ endpoint_cost_rollups = NoRows
    /\ run = [r \in RunSlots |-> IdleRun]
    /\ runs_started = 0
    /\ settled = [d \in Dates |-> 0]
    /\ ing = IdleIngest
    /\ ingests_started = 0

RollupNext ==
    \/ \E call \in IngestCalls : IngestUsageEvent(call[1], call[2])
    \/ \E r \in RunSlots, d \in Dates :
          runs_started < MaxRuns /\ d <= DateOf(clock) /\ BeginRollup(r, d)
    \/ \E r \in RunSlots : SelectDaily(r)
    \/ \E r \in RunSlots : UpsertDaily(r)
    \/ \E r \in RunSlots : SelectModel(r)
    \/ \E r \in RunSlots : UpsertModel(r)
    \/ \E r \in RunSlots : SelectEndpoint(r)
    \/ \E r \in RunSlots : UpsertEndpoint(r)
    \/ \E r \in RunSlots : CommitRollup(r)
    \/ \E r \in RunSlots : FailRollup(r)
    \/ DayPasses

RollupSpec == RollupInit /\ [][RollupNext]_vars

(* ---------------------------------------------------------------------- *)
(* Rate limiter: properties                                                *)
(* ---------------------------------------------------------------------- *)
Count(row) == _get_current_count(api_key_usage, row)

PastChecks(r) == req[r].pc \in {"inc_minute", "inc_day", "inc_ai_day", "commit"}

Denies(r) == req[r].pc # "denied" /\ req'[r].pc = "denied"

\* C1: for every key, window type and bucket the stored request_count equals
\* the number of requests admitted and committed on it, in every interleaving
\* of the handlers, the race to create the row included.
C1_ExactCount ==
    \A row \in (DOMAIN api_key_usage) \cup (DOMAIN admitted) :
        Count(row) = _get_current_count(admitted, row)

\* Two requests of one key that overlapped were the only ones, both are
\* committed, and the minute row they raced to create holds 2.
C1_Witness ==
    /\ started = 2
    /\ \A r \in Slots : req[r].pc = "done" /\ req[r].api_key_id = "k1" /\ req[r].minute_start = 0
    /\ "k1" \in overlapped
    /\ Count(Row("k1", WINDOW_MINUTE, 0)) = 2

\* What a request past its checks, and a denied one, have read.
C2_AdmittedBelow ==
    \A r \in Slots :
        /\ PastChecks(r) =>
              /\ req[r].rpm_count < RPM_LIMIT
              /\ req[r].rpd_count < RPD_LIMIT
              /\ req[r].kind = "ai" => req[r].aed_count < AED_LIMIT
        /\ req[r].pc = "denied" =>
              \/ req[r].rpm_count >= RPM_LIMIT
              \/ req[r].rpd_count >= RPD_LIMIT
              \/ req[r].kind = "ai" /\ req[r].aed_count >= AED_LIMIT

\* A check reads the committed counter and denies exactly at or over the limit.
C2_CheckStep ==
    \A r \in Slots :
        /\ req[r].pc = "check_rpm" /\ req'[r].pc \notin {"check_rpm", "failed"} =>
              /\ req'[r].rpm_count = Count(MinuteRow(req[r]))
              /\ Denies(r) <=> Count(MinuteRow(req[r])) >= RPM_LIMIT
        /\ req[r].pc = "check_rpd" /\ req'[r].pc \notin {"check_rpd", "failed"} =>
              /\ req'[r].rpd_count = Count(DayRow(req[r]))
              /\ Denies(r) <=> Count(DayRow(req[r])) >= RPD_LIMIT
        /\ req[r].pc = "check_aed" /\ req'[r].pc \notin {"check_aed", "failed"} =>
              /\ req'[r].aed_count = Count(AiDayRow(req[r]))
              /\ Denies(r) <=> Count(AiDayRow(req[r])) >= AED_LIMIT

\* C2: a request is admitted if and only if each of its check reads found the
\* window's counter strictly below the limit; a counter equal to its limit denies.
C2_AdmitIffBelowLimit == []C2_AdmittedBelow /\ [][C2_CheckStep]_vars

\* A request is denied by the day window read exactly at its limit while the
\* minute window was below its own.
C2_Witness ==
    \E r \in Slots :
        /\ req[r].pc = "denied"
        /\ req[r].rpm_count < RPM_LIMIT
        /\ req[r].rpd_count = RPD_LIMIT

C3_DenialStep ==
    \A r \in Slots :
        Denies(r) => /\ api_key_usage' = api_key_usage
                     /\ req[r].tx = NoRows
                     /\ req'[r].issued = 0

\* C3: a denied request changes no counter: the step that denies leaves table
\* api_key_usage as it was, rows and values, and the request has issued no
\* increment in its session.
C3_DeniedChangesNothing == [][C3_DenialStep]_vars

\* A request is denied by the day window although its minute window was below
\* the limit, and its minute row holds what the admitted requests put there.
C3_Witness ==
    \E r \in Slots :
        /\ req[r].pc = "denied"
        /\ req[r].rpm_count < RPM_LIMIT
        /\ req[r].rpd_count >= RPD_LIMIT
        /\ Count(MinuteRow(req[r])) = req[r].rpm_count
        /\ Count(DayRow(req[r])) = req[r].rpd_count

\* C4: under sequential execution no counter exceeds its limit, and a request
\* denied by a window finds exactly `limit` admitted requests in that bucket.
C4_SequentialHardLimit ==
    /\ \A row \in DOMAIN api_key_usage : api_key_usage[row] <= Limit(row[2])
    /\ \A r \in Slots :
          req[r].pc = "denied" =>
             /\ req[r].rpm_count >= RPM_LIMIT =>
                   /\ Count(MinuteRow(req[r])) = RPM_LIMIT
                   /\ _get_current_count(admitted, MinuteRow(req[r])) = RPM_LIMIT
             /\ req[r].rpd_count >= RPD_LIMIT =>
                   /\ Count(DayRow(req[r])) = RPD_LIMIT
                   /\ _get_current_count(admitted, DayRow(req[r])) = RPD_LIMIT
             /\ req[r].aed_count >= AED_LIMIT =>
                   /\ Count(AiDayRow(req[r])) = AED_LIMIT
                   /\ _get_current_count(admitted, AiDayRow(req[r])) = AED_LIMIT

\* After RPM_LIMIT admitted requests in one minute bucket the next one is denied
\* and the counter is still RPM_LIMIT.
C4_Witness ==
    \E r \in Slots :
        /\ req[r].pc = "denied"
        /\ req[r].rpm_count = RPM_LIMIT
        /\ started = RPM_LIMIT + 1
        /\ Count(MinuteRow(req[r])) = RPM_LIMIT

\* C5: the limits are soft: a counter exceeds its limit only through requests
\* of the same key that were in flight together, and that state is reachable.
C5_OvershootOnlyByOverlap ==
    \A row \in DOMAIN api_key_usage :
        api_key_usage[row] > Limit(row[2]) => row[1] \in overlapped

\* One slot was left in the minute bucket, two overlapping requests both read
\* RPM_LIMIT - 1, both were admitted, and the counter ends at RPM_LIMIT + 1.
C5_Witness ==
    /\ \A r \in Slots : req[r].pc = "done" /\ req[r].api_key_id = "k1" /\ req[r].minute_start = 0
    /\ Count(Row("k1", WINDOW_MINUTE, 0)) = RPM_LIMIT + 1

\* The minute buckets of a day bucket.
MinuteStartsOf(day_start) ==
    {m \in 0..MaxClock : _minute_bucket(m) = m /\ _day_bucket(m) = day_start}

RECURSIVE SumMinutes(_, _)
SumMinutes(key, starts) ==
    IF starts = {} THEN 0
    ELSE LET m == CHOOSE x \in starts : TRUE IN
         Count(Row(key, WINDOW_MINUTE, m)) + SumMinutes(key, starts \ {m})

C10_WindowsAgree ==
    \A key \in Keys, d \in 0..MaxClock :
        _day_bucket(d) = d =>
           /\ Count(Row(key, WINDOW_DAY, d)) = SumMinutes(key, MinuteStartsOf(d))
           /\ Count(Row(key, WINDOW_AI_DAY, d)) <= Count(Row(key, WINDOW_DAY, d))

C10_FailureStep ==
    \A r \in Slots :
        req[r].pc # "failed" /\ req'[r].pc = "failed" => api_key_usage' = api_key_usage

\* C10: a request's increments become durable all together or not at all: a
\* failing request leaves table api_key_usage as it was, and in the table the
\* day count of a key always equals the sum of its minute counts of that day,
\* and the AI-day count never exceeds the day count.
C10_AllOrNothing == []C10_WindowsAgree /\ [][C10_FailureStep]_vars

\* A request failed after its minute increment was issued (the day increment
\* or the commit failed) and the table shows none of it.
C10_Witness ==
    \E r \in Slots :
        /\ req[r].pc = "failed"
        /\ started = 1
        /\ req[r].issued = 1
        /\ api_key_usage = NoRows

(* ---------------------------------------------------------------------- *)
(* Two keys of one project                                                  *)
(* ---------------------------------------------------------------------- *)
\* The tokens of the two active keys of project p1.
SameProjectAuthorizations ==
    {Authorization("Bearer", "sk_live_1"), Authorization("Bearer", "sk_live_4")}

\* Requests of the two keys, in flight together.
KeyNext ==
    \/ \E r \in Slots, kind \in Kinds, authorization \in SameProjectAuthorizations :
          started < MaxRequests /\ EnforceBegin(r, kind, authorization)
    \/ \E r \in Slots : CheckRpm(r)
    \/ \E r \in Slots : CheckRpd(r)
    \/ \E r \in Slots : CheckAed(r)
    \/ \E r \in Slots : IncMinute(r)
    \/ \E r \in Slots : IncDay(r)
    \/ \E r \in Slots : IncAiDay(r)
    \/ \E r \in Slots : CommitRequest(r)
    \/ \E r \in Slots : FailRequest(r)
    \/ Tick

KeySpec == Init /\ [][KeyNext]_vars

(* ---------------------------------------------------------------------- *)
(* The three components side by side                                        *)
(* ---------------------------------------------------------------------- *)
\* One session of each kind at a time, for requests of every kind and key,
\* these calls of the ingestion endpoint and runs for today.
SysSlots == {1}
SysAuthorizations == {NoAuthorization, Authorization("Bearer", "sk_live_1")}
SysBodies == {Body("gpt-4", 500, 150, NoRows), Body("gpt-5", 1, 0, NoRows)}

SystemNext ==
    \/ \E r \in SysSlots, kind \in Kinds, key \in Keys :
          started < MaxSysRequests /\ BeginRequest(r, kind, key)
    \/ \E r \in SysSlots : CheckRpm(r)
    \/ \E r \in SysSlots : CheckRpd(r)
    \/ \E r \in SysSlots : CheckAed(r)
    \/ \E r \in SysSlots : IncMinute(r)
    \/ \E r \in SysSlots : IncDay(r)
    \/ \E r \in SysSlots : IncAiDay(r)
    \/ \E r \in SysSlots : CommitRequest(r)
    \/ \E r \in SysSlots : FailRequest(r)
    \/ \E authorization \in SysAuthorizations, body \in SysBodies :
          BeginIngest(authorization, body)
    \/ Authenticate
    \/ ValidateBody
    \/ PriceEvent
    \/ PersistEvent
    \/ PersistFails
    \/ \E r \in SysSlots, d \in Dates :
          runs_started < MaxSysRuns /\ d <= DateOf(clock) /\ BeginRollup(r, d)
    \/ \E r \in SysSlots : SelectDaily(r)
    \/ \E r \in SysSlots : UpsertDaily(r)
    \/ \E r \in SysSlots : SelectModel(r)
    \/ \E r \in SysSlots : UpsertModel(r)
    \/ \E r \in SysSlots : SelectEndpoint(r)
    \/ \E r \in SysSlots : UpsertEndpoint(r)
    \/ \E r \in SysSlots : CommitRollup(r)
    \/ \E r \in SysSlots : FailRollup(r)

SystemSpec == Init /\ [][SystemNext]_vars

(* ---------------------------------------------------------------------- *)
(* Rate limiter: what the caller sees                                      *)
(* ---------------------------------------------------------------------- *)
\* The dependency returned its AuthContext: the framework calls the router logic.
RouterLogicRuns(q) == q.response.via = "return"

C11_Outcomes ==
    \A r \in Slots :
        /\ RouterLogicRuns(req[r]) => req[r].pc = "done"
        /\ req[r].response = _RATE_LIMITED =>
              /\ req[r].pc = "denied"
              /\ \/ req[r].rpm_count >= RPM_LIMIT
                 \/ req[r].rpd_count >= RPD_LIMIT
                 \/ req[r].aed_count >= AED_LIMIT
        /\ req[r].pc = "failed" =>
              /\ req[r].response.via = "propagate"
              /\ req[r].response.status_code # 429

C11_StorageFailureStep ==
    \A r \in Slots :
        req[r].pc # "failed" /\ req'[r].pc = "failed" =>
            /\ ~RouterLogicRuns(req'[r])
            /\ req'[r].response # _RATE_LIMITED
            /\ req'[r].response.via = "propagate"
            /\ req'[r].raised.type # "RateLimitExceeded"

\* C11: a storage failure in a read, an increment or the commit gives the
\* caller neither an admission nor the rate-limit denial: the dependency lets
\* the failure through, the 429 is given only to a request that read a
\* counter at its limit, and the router logic runs only after the commit.
C11_StorageFailureIsHard == []C11_Outcomes /\ [][C11_StorageFailureStep]_vars

\* A request failed at its commit, after both increments were issued, and
\* the caller got the failure itself.
C11_Witness ==
    \E r \in Slots :
        /\ req[r].pc = "failed"
        /\ req[r].issued = 2
        /\ req[r].kind = "std"
        /\ req[r].response.via = "propagate"
        /\ req[r].raised = StorageError

(* ---------------------------------------------------------------------- *)
(* Rollup aggregator: properties                                           *)
(* ---------------------------------------------------------------------- *)
Commits(r) == run[r].pc = "commit" /\ run'[r].pc = "done"

\* The stored events of a date that belong to a project, and what the claim
\* sums over them; events is the table, a row count per event.
C6_EventsOf(events, d) ==
    {e \in DOMAIN events : DateOf(e.timestamp) = d /\ e.project_id # NULL}

RECURSIVE C6_Cost(_, _)
C6_Cost(events, E) ==
    IF E = {} THEN 0
    ELSE LET e == CHOOSE x \in E : TRUE IN
         events[e] * e.cost_usd + C6_Cost(events, E \ {e})

RECURSIVE C6_Tokens(_, _)
C6_Tokens(events, E) ==
    IF E = {} THEN 0
    ELSE LET e == CHOOSE x \in E : TRUE IN
         events[e] * e.total_tokens + C6_Tokens(events, E \ {e})

RECURSIVE C6_Number(_, _)
C6_Number(events, E) ==
    IF E = {} THEN 0
    ELSE LET e == CHOOSE x \in E : TRUE IN events[e] + C6_Number(events, E \ {e})

C6_RowsMatch(events, daily, model, endpoint, d) ==
    \A e \in C6_EventsOf(events, d) :
        LET kd == <<d, e.environment, e.project_id>>
            km == <<d, e.model_name, e.environment, e.project_id>>
            ke == <<d, e.endpoint, e.environment, e.project_id>>
            Ed == {x \in C6_EventsOf(events, d) :
                      x.environment = e.environment /\ x.project_id = e.project_id}
            Em == {x \in Ed : x.model_name = e.model_name}
            Ee == {x \in Ed : x.endpoint = e.endpoint}
        IN /\ kd \in DOMAIN daily
           /\ daily[kd].total_cost_usd = C6_Cost(events, Ed)
           /\ daily[kd].total_tokens = C6_Tokens(events, Ed)
           /\ daily[kd].request_count = C6_Number(events, Ed)
           /\ km \in DOMAIN model
           /\ model[km].total_cost_usd = C6_Cost(events, Em)
           /\ model[km].total_tokens = C6_Tokens(events, Em)
           /\ model[km].request_count = C6_Number(events, Em)
           /\ ke \in DOMAIN endpoint
           /\ endpoint[ke].total_cost_usd = C6_Cost(events, Ee)
           /\ endpoint[ke].request_count = C6_Number(events, Ee)

C6_CommitStep ==
    \A r \in RunSlots, d \in Dates :
        Commits(r) /\ run[r].target_date = d /\ ~run[r].dirty =>
            C6_RowsMatch(usage_events', daily_cost_rollups', model_cost_rollups',
                         endpoint_cost_rollups', d)

\* C6: when a run for a date commits and no event of the date was stored
\* since its first read, every group of the date has its row in each of the
\* three tables, with the sum of cost_usd, the sum of total_tokens (daily and
\* model) and the number of the stored events of the group.
C6_RollupEqualsSums == [][C6_CommitStep]_vars

\* Two events of one daily group but of two models and two endpoints are
\* stored, two runs were made, and the daily row holds both events.
C6_Witness ==
    /\ runs_started = 2
    /\ \A r \in RunSlots : run[r].pc = "done"
    /\ settled[0] >= 1
    /\ <<0, "prod", "p1">> \in DOMAIN daily_cost_rollups
    /\ daily_cost_rollups[<<0, "prod", "p1">>].request_count = 2
    /\ daily_cost_rollups[<<0, "prod", "p1">>].total_cost_usd = 2400008
    /\ daily_cost_rollups[<<0, "prod", "p1">>].total_tokens = 651
    /\ <<0, "gpt-4", "prod", "p1">> \in DOMAIN model_cost_rollups
    /\ model_cost_rollups[<<0, "gpt-4", "prod", "p1">>].request_count = 1

\* The rows of a table without updated_at.
C7_Figures(tbl) ==
    [k \in DOMAIN tbl |->
        [f \in (DOMAIN tbl[k]) \ {"updated_at"} |-> tbl[k][f]]]

C7_RerunStep ==
    \A r \in RunSlots, d \in Dates :
        Commits(r) /\ run[r].target_date = d /\ ~run[r].dirty /\ settled[d] >= 1 =>
            /\ C7_Figures(daily_cost_rollups') = C7_Figures(daily_cost_rollups)
            /\ C7_Figures(model_cost_rollups') = C7_Figures(model_cost_rollups)
            /\ C7_Figures(endpoint_cost_rollups') = C7_Figures(endpoint_cost_rollups)

\* C7: a run for a date that follows a committed run for the date, with no
\* event of the date stored in between, leaves the same keys with the same
\* total cost, total tokens and request count in all three tables.
C7_Idempotent == [][C7_RerunStep]_vars

\* Two runs for date 0 committed in a row with events stored and none added.
C7_Witness ==
    /\ settled[0] >= 2
    /\ DOMAIN daily_cost_rollups # {}
    /\ DOMAIN model_cost_rollups # {}
    /\ DOMAIN endpoint_cost_rollups # {}

C8_TableStep ==
    Tables' # Tables =>
        \E r \in RunSlots :
            /\ Commits(r)
            /\ daily_cost_rollups' = Overwrite(daily_cost_rollups, run[r].tx_daily)
            /\ model_cost_rollups' = Overwrite(model_cost_rollups, run[r].tx_model)
            /\ endpoint_cost_rollups' = Overwrite(endpoint_cost_rollups, run[r].tx_endpoint)

\* C8: the committed rows of the three tables change only in the commit of a
\* run, and that one step puts the run's rows into all three tables: no state
\* shows one table with the run's values and another without.
C8_VisibleTogether == [][C8_TableStep]_vars

\* A run has upserted new figures over an existing daily row and is still
\* working on the other tables: the committed daily row is the previous one.
C8_Witness ==
    \E r \in RunSlots :
        /\ run[r].pc \in {"sel_model", "ups_model", "sel_endpoint", "ups_endpoint"}
        /\ \E k \in (DOMAIN run[r].tx_daily) \cap (DOMAIN daily_cost_rollups) :
              run[r].tx_daily[k].request_count # daily_cost_rollups[k].request_count

C9_RunStep ==
    \A r \in RunSlots :
        /\ RunActive(r) /\ run'[r] # run[r] /\ ~Commits(r) => Tables' = Tables
        /\ run'[r].pc = "failed" =>
              /\ run'[r].tx_daily = NoRows
              /\ run'[r].tx_model = NoRows
              /\ run'[r].tx_endpoint = NoRows

\* C9: no step of a run before its commit, and not its failure, changes a
\* committed row of the three tables, and a failed run keeps no pending write.
C9_FailureRollsBack == [][C9_RunStep]_vars

\* A run failed after it had issued upserts in all three tables, and the
\* tables hold no row.
C9_Witness ==
    \E r \in RunSlots :
        /\ run[r].pc = "failed"
        /\ run[r].issued >= 3
        /\ runs_started = 1
        /\ Tables = <<NoRows, NoRows, NoRows>>

(* ---------------------------------------------------------------------- *)
(* Ingestion endpoint and cost calculator: properties                      *)
(* ---------------------------------------------------------------------- *)
Created(q) == q.pc = "answered" /\ q.response.status_code = 201

C13_NanoUsd(d) == d.coef * Pow10(d.exp + 9)

Priced(q) == q.pc = "persist"

\* C13: for every model of the pricing table and token counts >= 0 the cost
\* that calculate_cost returns is (input/1000) * input price + (output/1000) *
\* output price exactly, no digit lost, and it is not negative; the price of a
\* token in units of 10^-9 USD is the table's price per 1000 in millionths.
C13_ExactCost ==
    Priced(ing) =>
        /\ ing.payload.model_name \in KnownModels
        /\ ing.cost_usd.exp >= -9
        /\ C13_NanoUsd(ing.cost_usd) =
              ing.payload.input_tokens * InputRate(ing.payload.model_name)
              + ing.payload.output_tokens * OutputRate(ing.payload.model_name)
        /\ ing.cost_usd.coef >= 0

\* gemini-1.5-flash, 999 input tokens and 150 output tokens: 0.000119925 USD,
\* a cost with nine decimal places.
C13_Witness ==
    /\ Priced(ing)
    /\ ing.payload = Body("gemini-1.5-flash", 999, 150, NoRows)
    /\ ing.cost_usd = Decimal(119925, -9)

C14_KnownOnly ==
    /\ \A e \in DOMAIN usage_events : e.model_name \in KnownModels
    /\ Priced(ing) \/ Created(ing) => ing.payload.model_name \in KnownModels

C14_PriceStep ==
    ing.pc = "price" /\ ing'.pc # "price" /\ ing.payload.model_name \notin KnownModels =>
        /\ ing'.pc = "answered"
        /\ ing'.response.status_code = 422
        /\ ing'.response.supported = KnownModels
        /\ Cardinality(ing'.response.supported) = 10
        /\ usage_events' = usage_events

\* C14: a model name that is no key of the pricing table gets no cost: the
\* pricing step ends the request with a 422 that lists all ten known model
\* names and stores nothing, and no stored event and no request past the
\* pricing step carries such a name.
C14_UnknownModelRejected == []C14_KnownOnly /\ [][C14_PriceStep]_vars

\* The second request names gpt-5 and is answered 422 with the list; the
\* store holds the event of the first request only.
C14_Witness ==
    /\ ing.pc = "answered"
    /\ ing.payload.model_name = "gpt-5"
    /\ ing.response.status_code = 422
    /\ ing.response.via = "HTTPException"
    /\ ing.response.supported = KnownModels
    /\ ingests_started = 2
    /\ StoredEvents(DOMAIN usage_events) = 1

(* ---------------------------------------------------------------------- *)
(* Rollup aggregator: runs for different dates, and what a run leaves alone *)
(* ---------------------------------------------------------------------- *)
PendingKeys(u) == (DOMAIN u.tx_daily) \cup (DOMAIN u.tx_model) \cup (DOMAIN u.tx_endpoint)

\* The rows of `tbl` whose date is not d are in `after` as they are in `tbl`,
\* and `after` has no other row of another date.
OtherDatesSame(tbl, after, d) ==
    \A k \in (DOMAIN tbl) \cup (DOMAIN after) :
        k[1] # d => k \in DOMAIN tbl /\ k \in DOMAIN after /\ after[k] = tbl[k]

\* Runs for different dates write different rows: neither waits for the other.
C15_Disjoint ==
    \A r \in RunSlots :
        RunActive(r) =>
            /\ \A k \in PendingKeys(run[r]) \cup (DOMAIN run[r].rows) :
                  k[1] = run[r].target_date
            /\ \A s \in RunSlots \ {r} :
                  RunActive(s) /\ run[s].target_date # run[r].target_date =>
                      PendingKeys(run[s]) \cap PendingKeys(run[r]) = {}

\* The commit of a run has the effect of the whole run done at that moment.
C15_CommitStep ==
    \A r \in RunSlots, d \in Dates :
        Commits(r) /\ run[r].target_date = d /\ ~run[r].dirty =>
            /\ C6_RowsMatch(usage_events', daily_cost_rollups', model_cost_rollups',
                            endpoint_cost_rollups', d)
            /\ OtherDatesSame(daily_cost_rollups, daily_cost_rollups', d)
            /\ OtherDatesSame(model_cost_rollups, model_cost_rollups', d)
            /\ OtherDatesSame(endpoint_cost_rollups, endpoint_cost_rollups', d)
            /\ \A s \in RunSlots \ {r} : run'[s] = run[s]

\* C15: two runs for different dates, however their reads and upserts
\* interleave, end as the two runs done one after the other in either order:
\* their pending rows never share a key, and each commit puts the sums of its
\* own date into the tables, leaves every row of another date and the other
\* run's pending rows as they are.
C15_DifferentDatesCommute == []C15_Disjoint /\ [][C15_CommitStep]_vars

\* A run for date 0 and a run for date 1 are both at their commit, each with
\* its upserts in all three tables pending.
C15_Witness ==
    /\ run[1].pc = "commit" /\ run[2].pc = "commit"
    /\ run[1].target_date # run[2].target_date
    /\ run[1].issued >= 3 /\ run[2].issued >= 3
    /\ ~run[1].dirty /\ ~run[2].dirty

C16_Step ==
    /\ DOMAIN daily_cost_rollups \subseteq DOMAIN daily_cost_rollups'
    /\ DOMAIN model_cost_rollups \subseteq DOMAIN model_cost_rollups'
    /\ DOMAIN endpoint_cost_rollups \subseteq DOMAIN endpoint_cost_rollups'
    /\ \A r \in RunSlots, d \in Dates :
          Commits(r) /\ run[r].target_date = d =>
             /\ OtherDatesSame(daily_cost_rollups, daily_cost_rollups', d)
             /\ OtherDatesSame(model_cost_rollups, model_cost_rollups', d)
             /\ OtherDatesSame(endpoint_cost_rollups, endpoint_cost_rollups', d)
             /\ run[r].issued = 0 => Tables' = Tables
    /\ \A r \in RunSlots :
          (/\ run[r].pc \in {"sel_daily", "sel_model", "sel_endpoint"}
           /\ C6_EventsOf(usage_events, run[r].target_date) = {})
          => /\ run'[r].pc \notin {"ups_daily", "ups_model", "ups_endpoint"}
             /\ run'[r].issued = run[r].issued
             /\ PendingKeys(run'[r]) = PendingKeys(run[r])

\* C16: no step deletes a row of the three tables; the commit of a run leaves
\* every row of another date as it is; a run that finds no event of its date
\* issues no upsert, and a run that issued none changes nothing at its commit.
C16_NoDeleteOtherDatesUntouched == [][C16_Step]_vars

\* Rows of date 0 are stored; a run for date 1, which has no event, went
\* through its three queries without an upsert and is at its commit.
C16_Witness ==
    \E r \in RunSlots :
        /\ run[r].pc = "commit"
        /\ run[r].target_date = 1
        /\ run[r].issued = 0
        /\ C6_EventsOf(usage_events, 1) = {}
        /\ DOMAIN daily_cost_rollups # {}

(* ---------------------------------------------------------------------- *)
(* Ingestion endpoint: the derived fields of a stored event                 *)
(* ---------------------------------------------------------------------- *)
\* What holds of a stored event: the total is derived, no caller field is
\* stored, and the cost is the calculator's cost at the scale of the column.
C17_StoredAtColumnScale ==
    Created(ing) =>
        LET event == ing.response.event
            price == calculate_cost(ing.payload.model_name, ing.payload.input_tokens,
                                    ing.payload.output_tokens) IN
        /\ event \in DOMAIN usage_events
        /\ DOMAIN ing.payload.extra = {}
        /\ event.total_tokens = event.input_tokens + event.output_tokens
        /\ ~price.raised
        /\ event.cost_usd = Numeric12_8(price.cost)

AiDayRows(tbl) == {k \in DOMAIN tbl : k[2] = WINDOW_AI_DAY}

\* A standard request never has the AI window in hand.
C18_StandardIgnoresAiDay ==
    \A r \in Slots :
        req[r].kind = "std" =>
            /\ req[r].pc \notin {"check_aed", "inc_ai_day"}
            /\ req[r].aed_count = 0
            /\ AiDayRows(req[r].tx) = {}

C18_Step ==
    \A r \in Slots :
        \* the commit of a standard request leaves every ai_day row as it is
        /\ req[r].kind = "std" /\ req[r].pc = "commit" /\ req'[r].pc = "done" =>
              /\ AiDayRows(api_key_usage') = AiDayRows(api_key_usage)
              /\ \A k \in AiDayRows(api_key_usage) : api_key_usage'[k] = api_key_usage[k]
        \* a standard request below the day limit goes on to its increments,
        \* whatever the ai_day counter holds
        /\ (/\ req[r].kind = "std" /\ req[r].pc = "check_rpd"
            /\ req'[r].pc \notin {"check_rpd", "failed"}
            /\ Count(DayRow(req[r])) < RPD_LIMIT)
           => req'[r].pc = "inc_minute"
        \* the commit of an AI request raises its three counters by one each
        /\ req[r].kind = "ai" /\ req[r].pc = "commit" /\ req'[r].pc = "done" =>
              /\ \A k \in {MinuteRow(req[r]), DayRow(req[r]), AiDayRow(req[r])} :
                    _get_current_count(api_key_usage', k) = Count(k) + 1
              /\ \A k \in (DOMAIN api_key_usage') \ WindowRows(req[r]) :
                    k \in DOMAIN api_key_usage /\ api_key_usage'[k] = api_key_usage[k]
        \* an AI request that reads any of the three at its limit is denied
        /\ (/\ req[r].kind = "ai"
            /\ req'[r].pc \notin {req[r].pc, "failed"}
            /\ \/ req[r].pc = "check_rpm" /\ Count(MinuteRow(req[r])) >= RPM_LIMIT
               \/ req[r].pc = "check_rpd" /\ Count(DayRow(req[r])) >= RPD_LIMIT
               \/ req[r].pc = "check_aed" /\ Count(AiDayRow(req[r])) >= AED_LIMIT)
           => req'[r].pc = "denied"

\* C18: the AI-explanations window is independent of the day window: a
\* standard request never reads or writes an ai_day counter and is admitted
\* whatever it holds, an admitted AI request raises the minute, day and ai_day
\* counters by exactly one each, and an AI request that reads one of the three
\* at its limit is denied.
C18_AiDayIndependent == []C18_StandardIgnoresAiDay /\ [][C18_Step]_vars

\* A standard request was admitted and counted while the ai_day counter of
\* its key and day was at AED_LIMIT.
C18_Witness ==
    \E r \in Slots :
        /\ req[r].kind = "std"
        /\ req[r].pc = "done"
        /\ Count(AiDayRow(req[r])) = AED_LIMIT
        /\ Count(DayRow(req[r])) = AED_LIMIT + 1
        /\ \E s \in Slots \ {r} :
              req[s].kind = "ai" /\ req[s].pc = "denied"
              /\ req[s].api_key_id = req[r].api_key_id
              /\ req[s].aed_count = AED_LIMIT /\ req[s].rpd_count < RPD_LIMIT

(* ---------------------------------------------------------------------- *)
(* Rate limiter: buckets                                                    *)
(* ---------------------------------------------------------------------- *)
TicksPerDay == TicksPerMinute * MinutesPerDay

C19_Step ==
    \A r \in Slots :
        \* both buckets are floors of the one `now` the request read
        /\ ~Active(r) /\ req'[r].pc = "check_rpm" =>
              /\ req'[r].minute_start % TicksPerMinute = 0
              /\ req'[r].minute_start <= clock
              /\ clock < req'[r].minute_start + TicksPerMinute
              /\ req'[r].day_start % TicksPerDay = 0
              /\ req'[r].day_start <= clock
              /\ clock < req'[r].day_start + TicksPerDay
        \* the first request of a bucket reads 0, whatever happened in earlier buckets
        /\ (/\ req[r].pc = "check_rpm" /\ req'[r].pc \notin {"check_rpm", "failed"}
            /\ _get_current_count(admitted, MinuteRow(req[r])) = 0)
           => req'[r].rpm_count = 0 /\ req'[r].pc = "check_rpd"
        \* and with the day window under its limit it is not denied by it
        /\ (/\ req[r].pc = "check_rpd" /\ req'[r].pc \notin {"check_rpd", "failed"}
            /\ req[r].rpm_count = 0
            /\ Count(DayRow(req[r])) < RPD_LIMIT)
           => req'[r].pc = (IF req[r].kind = "ai" THEN "check_aed" ELSE "inc_minute")

\* C19: a denial by the minute window does not carry over: the buckets of a
\* request are the floors of its single `now` to the minute and to midnight,
\* the first request of a key in a minute bucket reads a count of 0 there, and
\* it passes the day check when the day counter is under RPD_LIMIT.
C19_MinuteBucketsIndependent == [][C19_Step]_vars

\* A request was denied at RPM_LIMIT in one minute bucket; a later request of
\* the same key, in a later bucket, read 0 and passed its checks.
C19_Witness ==
    \E r \in Slots, s \in Slots :
        /\ req[s].pc = "denied"
        /\ req[s].rpm_count = RPM_LIMIT
        /\ req[r].api_key_id = req[s].api_key_id
        /\ req[r].minute_start > req[s].minute_start
        /\ req[r].pc = "inc_minute"
        /\ req[r].rpm_count = 0
        /\ Count(MinuteRow(req[s])) = RPM_LIMIT

(* ---------------------------------------------------------------------- *)
(* Rate limiter: what a denied caller can tell                              *)
(* ---------------------------------------------------------------------- *)
WindowMessages ==
    {"RPM limit exceeded", "RPD limit exceeded", "AI explanations/day limit exceeded"}

\* C20: the denial the caller sees is the same whichever window tripped: status
\* 429 with the one fixed detail, which is none of the service's window
\* messages, and no header (no Retry-After, no remaining quota); two denied
\* requests have equal responses even when different windows denied them.
C20_DenialIsGeneric ==
    \A r \in Slots :
        req[r].pc = "denied" =>
            /\ req[r].raised.message \in WindowMessages
            /\ req[r].response.via = "HTTPException"
            /\ req[r].response.status_code = _RATE_LIMITED.status_code
            /\ req[r].response.detail \notin WindowMessages
            /\ req[r].response.headers = {}
            /\ \A s \in Slots : req[s].pc = "denied" => req[s].response = req[r].response

\* One request was denied by the AI-explanations window and another by the
\* minute window, and both callers got the same response.
C20_Witness ==
    \E r \in Slots, s \in Slots :
        /\ req[r].pc = "denied" /\ req[s].pc = "denied"
        /\ req[r].raised.message = "AI explanations/day limit exceeded"
        /\ req[s].raised.message = "RPM limit exceeded"
        /\ req[r].response = req[s].response

(* ---------------------------------------------------------------------- *)
(* What an unauthenticated and a denied caller can tell                     *)
(* ---------------------------------------------------------------------- *)
Unauthorized(q) == q.pc = "unauthorized"

\* C21 as stated: an authentication failure and a quota denial are the same
\* outcome to the caller, who cannot tell which of the two occurred.
C21_AuthAndQuotaAlike ==
    \A r \in Slots, s \in Slots :
        Unauthorized(req[r]) /\ req[s].pc = "denied" => req[r].response = req[s].response

\* C21: each of the two failures is generic within its own class: every
\* authentication failure (no header, another scheme, unknown key, inactive
\* key) is the one 401 response, every quota denial is the one 429 response,
\* neither detail names a cause; the status codes, the details and the
\* WWW-Authenticate header tell the two classes apart.
C21_GenericWithinClass ==
    \A r \in Slots :
        /\ Unauthorized(req[r]) =>
              /\ req[r].response.status_code = _AUTH_FAILED.status_code
              /\ req[r].response.detail = _AUTH_FAILED.detail
              /\ req[r].response.headers = _AUTH_FAILED.headers
              /\ \A s \in Slots : Unauthorized(req[s]) => req[s].response = req[r].response
              /\ \A s \in Slots :
                    req[s].pc = "denied" =>
                       /\ req[s].response.status_code # req[r].response.status_code
                       /\ req[s].response.detail # req[r].response.detail
        /\ req[r].pc = "denied" =>
              /\ req[r].response.detail \notin WindowMessages
              /\ \A s \in Slots : req[s].pc = "denied" => req[s].response = req[r].response

\* One caller was refused for its credentials and another was denied by a
\* window of its key.
C21_Witness ==
    \E r \in Slots, s \in Slots :
        /\ Unauthorized(req[r])
        /\ req[s].pc = "denied"
        /\ req[r].response.status_code # req[s].response.status_code

(* ---------------------------------------------------------------------- *)
(* Rollup aggregator: events without an owner                               *)
(* ---------------------------------------------------------------------- *)
Owner(k) == k[Len(k)]

C22_Owned(tbl, tx_field) ==
    /\ \A k \in DOMAIN tbl : Owner(k) # NULL
    /\ \A r \in RunSlots : \A k \in DOMAIN run[r][tx_field] : Owner(k) # NULL

\* C22: no row of the three tables, stored or pending in a run, has a NULL
\* project, and a daily row counts no more events, tokens and cost than the
\* stored events of its date, environment and project, which all have an owner.
C22_NullOwnerExcluded ==
    /\ C22_Owned(daily_cost_rollups, "tx_daily")
    /\ C22_Owned(model_cost_rollups, "tx_model")
    /\ C22_Owned(endpoint_cost_rollups, "tx_endpoint")
    /\ \A k \in DOMAIN daily_cost_rollups :
          LET E == {e \in C6_EventsOf(usage_events, k[1]) :
                       e.environment = k[2] /\ e.project_id = k[3]} IN
          /\ daily_cost_rollups[k].request_count <= C6_Number(usage_events, E)
          /\ daily_cost_rollups[k].total_cost_usd <= C6_Cost(usage_events, E)
          /\ daily_cost_rollups[k].total_tokens <= C6_Tokens(usage_events, E)

\* The event without a project and an event of a project are stored for the
\* same date, a run for the date has committed, and the date's rows count
\* one event.
C22_Witness ==
    /\ LegacyEvent \in DOMAIN usage_events
    /\ C6_Number(usage_events, C6_EventsOf(usage_events, DateOf(LegacyEvent.timestamp))) = 1
    /\ \E r \in RunSlots : run[r].pc = "done"
    /\ \E k \in DOMAIN daily_cost_rollups :
          k[1] = DateOf(LegacyEvent.timestamp) /\ daily_cost_rollups[k].request_count = 1
    /\ \E k \in DOMAIN model_cost_rollups : k[1] = DateOf(LegacyEvent.timestamp)
    /\ \E k \in DOMAIN endpoint_cost_rollups : k[1] = DateOf(LegacyEvent.timestamp)

(* ---------------------------------------------------------------------- *)
(* One writer for each relation                                             *)
(* ---------------------------------------------------------------------- *)
RequestCommits(r) == req[r].pc = "commit" /\ req'[r].pc = "done"

EventStored == ing.pc = "persist" /\ Created(ing')

C23_Step ==
    \* counter rows change only at the commit of a rate limiter call
    /\ api_key_usage' # api_key_usage =>
          /\ \E r \in Slots : RequestCommits(r)
          /\ usage_events' = usage_events
          /\ Tables' = Tables
    \* aggregate rows change only at the commit of a run
    /\ Tables' # Tables =>
          /\ \E r \in RunSlots : Commits(r)
          /\ usage_events' = usage_events
          /\ api_key_usage' = api_key_usage
    \* events change only when the ingestion endpoint stores one
    /\ usage_events' # usage_events =>
          /\ EventStored
          /\ api_key_usage' = api_key_usage
          /\ Tables' = Tables
    \* and a stored event stays as it is
    /\ \A e \in DOMAIN usage_events :
          e \in DOMAIN usage_events' /\ usage_events'[e] >= usage_events[e]
    \* what a session has pending is of its own relation
    /\ \A r \in Slots : \A k \in DOMAIN req'[r].tx :
          k[2] \in {WINDOW_MINUTE, WINDOW_DAY, WINDOW_AI_DAY}

\* C23: each relation has one writer: table api_key_usage changes only at the
\* commit of a rate limiter call, the three rollup tables only at the commit
\* of a run, usage_events only when the ingestion endpoint stores an event, and
\* each such step leaves the other relations as they are; a stored event is
\* never changed or removed.
C23_SingleWriter == [][C23_Step]_vars

\* A request was counted, an event was stored and a run has aggregated it.
C23_Witness ==
    /\ api_key_usage # NoRows
    /\ usage_events # NoRows
    /\ daily_cost_rollups # NoRows
    /\ model_cost_rollups # NoRows
    /\ endpoint_cost_rollups # NoRows
    /\ Created(ing)

(* ---------------------------------------------------------------------- *)
(* Rate limiter: the life of a counter row                                  *)
(* ---------------------------------------------------------------------- *)
\* A row is there only for a bucket with an admitted request.
C24_RowsAreEarned ==
    \A k \in DOMAIN api_key_usage :
        /\ _get_current_count(admitted, k) >= 1
        /\ api_key_usage[k] >= 1

C24_Step ==
    /\ \A k \in DOMAIN api_key_usage :
          k \in DOMAIN api_key_usage' /\ api_key_usage'[k] >= api_key_usage[k]
    /\ \A k \in (DOMAIN api_key_usage') \ (DOMAIN api_key_usage) :
          /\ api_key_usage'[k] = 1
          /\ _get_current_count(admitted, k) = 0
          /\ \E r \in Slots : RequestCommits(r) /\ k \in WindowRows(req[r])

\* C24: for a fixed (key, window type, window start) the stored count never
\* decreases and the row is never removed; a row exists only for a bucket in
\* which a request was admitted, and it is created, with the value 1, by the
\* commit of the first request admitted in the bucket.
C24_CountersMonotone == []C24_RowsAreEarned /\ [][C24_Step]_vars

\* A row created with 1 by one request was raised to 2 by another, and a
\* failed request left no row behind in another bucket.
C24_Witness ==
    \E k \in DOMAIN api_key_usage :
        /\ api_key_usage[k] > 1
        /\ \E r \in Slots : req[r].pc = "failed" /\ MinuteRow(req[r]) \notin DOMAIN api_key_usage

(* ---------------------------------------------------------------------- *)
(* Rate limiter: checks before increments                                   *)
(* ---------------------------------------------------------------------- *)
Checking(q) == q.pc \in {"check_rpm", "check_rpd", "check_aed"}

\* A call that still has a window to read has written nothing.
C25_NothingWrittenWhileChecking ==
    \A r \in Slots : Checking(req[r]) => req[r].issued = 0 /\ req[r].tx = NoRows

C25_Step ==
    \A r \in Slots :
        \* a read is a step of the check phase and writes nothing
        /\ Checking(req[r]) /\ req'[r] # req[r] =>
              /\ req'[r].issued = 0
              /\ req'[r].tx = NoRows
        \* an increment is issued only after the last read, and no read follows it
        /\ req'[r].issued > req[r].issued =>
              /\ PastChecks(r)
              /\ ~Checking(req'[r])
        /\ PastChecks(r) /\ Active(r) /\ Checking(req'[r]) => FALSE

\* C25: within one call of check_and_increment_request / _ai_request every
\* counter read comes before the call's first increment: while a window is
\* still to be read the call has issued no increment, and once it has issued
\* one it reads no counter again.
C25_ChecksBeforeIncrements == []C25_NothingWrittenWhileChecking /\ [][C25_Step]_vars

\* An AI request has read its three windows, one of them already counted by
\* an earlier request, and has issued its three increments.
C25_Witness ==
    \E r \in Slots :
        /\ req[r].kind = "ai"
        /\ req[r].pc = "commit"
        /\ req[r].issued = Cardinality(WindowRows(req[r]))
        /\ req[r].rpd_count >= 1

(* ---------------------------------------------------------------------- *)
(* Rollup aggregator: the three relations of one run                        *)
(* ---------------------------------------------------------------------- *)
\* The (date, environment, project) a rollup key belongs to.
GroupOf(k) == <<k[1], k[Len(k) - 1], k[Len(k)]>>

RowsOfGroup(tbl, g) == {k \in DOMAIN tbl : GroupOf(k) = g}

RECURSIVE SumOfRows(_, _, _)
SumOfRows(tbl, K, column) ==
    IF K = {} THEN 0
    ELSE LET k == CHOOSE x \in K : TRUE IN tbl[k][column] + SumOfRows(tbl, K \ {k}, column)

GroupSum(tbl, g, column) == SumOfRows(tbl, RowsOfGroup(tbl, g), column)

GroupsOf(u) == {GroupOf(k) : k \in PendingKeys(u)}

Columns == {"request_count", "total_cost_usd"}

CountsKept(tbl, after) ==
    \A k \in DOMAIN tbl :
        k \in DOMAIN after /\ after[k].request_count >= tbl[k].request_count

C27_Step ==
    \A r \in RunSlots :
        Commits(r) /\ ~run[r].overlap =>
            /\ CountsKept(daily_cost_rollups, daily_cost_rollups')
            /\ CountsKept(model_cost_rollups, model_cost_rollups')
            /\ CountsKept(endpoint_cost_rollups, endpoint_cost_rollups')

InFlightAtOnce(api_key_id) ==
    IF api_key_id \in overlapped THEN Cardinality(Slots) ELSE 1

\* C28: with at most K requests of one key in flight at the same time no
\* counter of the key exceeds its limit by more than K - 1; with K = 1 it
\* never exceeds the limit.
C28_OvershootBounded ==
    \A row \in DOMAIN api_key_usage :
        api_key_usage[row] <= Limit(row[2]) + InFlightAtOnce(row[1]) - 1

\* Two AI requests of one key were in flight together with one slot left in
\* the AI window, and its counter stands at the limit plus one.
C28_Witness ==
    \E row \in DOMAIN api_key_usage :
        /\ row[2] = WINDOW_AI_DAY
        /\ api_key_usage[row] = AED_LIMIT + Cardinality(Slots) - 1
        /\ row[1] \in overlapped
        /\ \A r \in Slots : req[r].pc = "done" /\ req[r].kind = "ai"

(* ---------------------------------------------------------------------- *)
(* Rate limiter: one key's requests and another key's counters              *)
(* ---------------------------------------------------------------------- *)
ProjectOf(api_key_id) == (CHOOSE k \in api_keys : k.id = api_key_id).project_id

RowsOfKey(tbl, api_key_id) == {k \in DOMAIN tbl : k[1] = api_key_id}

\* The counters a request of this key reads: the committed rows of the key.
CountersOfKey(api_key_id) ==
    [k \in RowsOfKey(api_key_usage, api_key_id) |-> api_key_usage[k]]

\* What a request holds and waits for is of its own key.
C29_OwnRowsOnly ==
    \A r \in Slots :
        /\ \A k \in DOMAIN req[r].tx : k[1] = req[r].api_key_id
        /\ \A s \in Slots \ {r} :
              Active(r) /\ Active(s) /\ req[s].api_key_id # req[r].api_key_id =>
                  \A k \in WindowRows(req[r]) : k \notin DOMAIN req[s].tx

C29_Step ==
    \A r \in Slots :
        \* the commit of a request changes the rows of its key and no other
        /\ RequestCommits(r) =>
              \A k \in DOMAIN api_key_usage' :
                  k[1] # req[r].api_key_id =>
                      k \in DOMAIN api_key_usage /\ api_key_usage'[k] = api_key_usage[k]
        \* a check is decided by the counters of the request's own key
        /\ Checking(req[r]) /\ req'[r].pc \notin {req[r].pc, "failed"} =>
              LET own == CountersOfKey(req[r].api_key_id)
                  row == CASE req[r].pc = "check_rpm" -> MinuteRow(req[r])
                           [] req[r].pc = "check_rpd" -> DayRow(req[r])
                           [] OTHER -> AiDayRow(req[r])
              IN Denies(r) <=> _get_current_count(own, row) >= Limit(row[2])

\* C29: requests of one key never change a counter of another key, never
\* wait for a row another key's request holds, and are admitted or denied by
\* the counters of their own key alone, also when the two keys are of the
\* same project.
C29_KeysIsolated == []C29_OwnRowsOnly /\ [][C29_Step]_vars

\* Two keys of one project: a request of one is denied at its AI-day limit
\* while an AI request of the other, on the same day, has passed its checks on
\* its own counters.
C29_Witness ==
    \E r \in Slots, s \in Slots :
        /\ req[r].api_key_id # req[s].api_key_id
        /\ ProjectOf(req[r].api_key_id) = ProjectOf(req[s].api_key_id)
        /\ req[r].pc = "denied"
        /\ req[r].aed_count = AED_LIMIT
        /\ req[s].kind = "ai"
        /\ req[s].pc = "commit"
        /\ req[s].day_start = req[r].day_start
        /\ req[s].aed_count = 0

(* ---------------------------------------------------------------------- *)
(* Cost calculator: the cost at the scale of the column                     *)
(* ---------------------------------------------------------------------- *)
\* C30: for every model of the pricing table and token counts >= 0 the cost
\* calculate_cost returns is a multiple of 10^-8 USD, and what the
\* NUMERIC(12,8) column keeps of it is the cost itself.
C30_CostFitsColumn ==
    Priced(ing) =>
        /\ C13_NanoUsd(ing.cost_usd) % 10 = 0
        /\ Numeric12_8(ing.cost_usd) * 10 = C13_NanoUsd(ing.cost_usd)

====
